---- MODULE Spec2Model ----
(***************************************************************************)
(* Model of the generation orchestrator of secure-rag-system:              *)
(* RAGPipeline.run (src/src/generation/rag_pipeline.py) with its           *)
(* collaborators: the vector store, the generation function, the           *)
(* faithfulness scorer and the audit sink.                                 *)
(*                                                                         *)
(* One pipeline instance is constructed (Init chooses its configuration)   *)
(* and serves run invocations one after another.  A run is cut at the      *)
(* calls it makes to a collaborator: retrieval, each generation call, each *)
(* scoring call and the audit append.                                      *)
(*                                                                         *)
(* Scores, thresholds and similarities are fixed-point numbers with four   *)
(* decimals (the code rounds them to four decimals): 7000 is 0.70.         *)
(***************************************************************************)
EXTENDS Integers, Sequences, FiniteSets, TLC

\* ------------------------------------------------------------------ bounds
\* largest max_retries the instance is configured with
MaxRetriesBound == 2
\* largest number of documents, distances or metadatas in a store result
MaxDocs == 2
\* largest number of chunks given to _format_context called on its own
MaxFmtChunks == 3

\* --------------------------------------------------------------- constants
\* round(x, 4): four decimals
ScoreScale == 10000

\* RAGPipeline.FALLBACK
FALLBACK == "I was unable to generate a reliable answer"

\* A fallback_message given to the constructor; NoneValue is Python's None.
NoneValue == "None"
CustomFallback == "custom fallback"
FallbackParams == {NoneValue, CustomFallback}

\* audit_log_path given to the constructor
AuditPath == "audit.jsonl"
AuditPathParams == {NoneValue, AuditPath}

\* faithfulness_threshold: 0.0, the default 0.70, and one no score reaches
Thresholds == {0, 7000, ScoreScale + 1}

\* Values the scorer computes from its signals, in [0, 1]
ScoreSamples == {0, 6999, 7000}

\* max_context_chars: the default and one that a single segment fills
DefaultContextChars == 6000
SmallContextChars == 40
Budgets == {DefaultContextChars, SmallContextChars}

\* Queries handed to run
Queries == {"q1"}

\* Outputs of the generation function; "" is the empty completion.
Outputs == {"", "a1", "a22"}

\* Document texts of the store; a document may be None.
Texts == {"d1"}
DocValues == Texts \cup {NoneValue}

\* Distances of the store; 1.0 + (-1) is 0 and the division raises.
Distances == {1, -1}

\* len(text)
TextLen(t) ==
    CASE t = ""        -> 0
      [] t = "a1"      -> 2
      [] t = "d1"      -> 2
      [] t = "a22"     -> 3
      [] t = NoneValue -> 4
      [] t = "d333"    -> 4
      [] t = "d55555"  -> 6
      [] OTHER         -> 5

\* bool(text) for a str or None
Truthy(t) == t # "" /\ t # NoneValue

Min(a, b) == IF a < b THEN a ELSE b

\* ------------------------------------------------------------------- state
VARIABLES
    \* configuration of the instance (set by __init__)
    max_retries, faithfulness_threshold, max_context_chars, fallback_message,
    audit_log_path,
    \* the audit sink: the lines of the file at audit_log_path
    sink,
    \* position of the current run and its locals
    pc, request_id, query, chunks, audit, user_prompt, chunk_texts,
    raw_answer, faithfulness, passed, retries_used, attempt, response,
    \* history of the current run: what the collaborators were asked and
    \* what they answered
    storeOutcome, llmCalls, prompts, outputs, scoreCalls, scores, raisedAt,
    appendOutcome, sinkAtStart,
    \* one call of _format_context on its own: arguments and result
    fmt,
    \* one FaithfulnessScorer on its own: construction, arguments and result
    \* of a score and a score_detailed call
    scorer,
    \* two score calls of one scorer against the same context
    pair,
    \* concurrent run invocations on one instance: the locals of each
    procs,
    \* one call of a function of evaluation/metrics.py: arguments and result
    metrics,
    \* one POST /query request at the HTTP boundary
    api

config == <<max_retries, faithfulness_threshold, max_context_chars,
            fallback_message, audit_log_path>>
locals == <<request_id, query, chunks, audit, user_prompt, chunk_texts,
            raw_answer, faithfulness, passed, retries_used, attempt, response>>
history == <<storeOutcome, llmCalls, prompts, outputs, scoreCalls, scores, raisedAt,
             appendOutcome, sinkAtStart>>
harness == <<fmt, scorer, pair, procs, metrics, api>>
vars == <<config, sink, pc, locals, history, harness>>

\* ------------------------------------------------------- the vector store
\* A metadata of the store, and the {} that replaces a missing one
MetaValue == "src"
EmptyMeta == "{}"

SeqsUpTo(S, n) == UNION {[1..k -> S] : k \in 0..n}

\* What vector_store.query does: it raises, or returns a dict.  The dict
\* has no first result set ("documents": []), or it has the three lists of
\* the first result set; "metadatas" may be missing or None (hasMetas
\* FALSE).
StoreResults ==
    {[kind |-> k, documents |-> <<>>, distances |-> <<>>,
      hasMetas |-> FALSE, metadatas |-> <<>>] : k \in {"raises", "no_result_set"}}
    \cup
    [kind : {"ok"}, documents : SeqsUpTo(DocValues, MaxDocs),
     distances : SeqsUpTo(Distances, MaxDocs),
     hasMetas : {TRUE}, metadatas : SeqsUpTo({MetaValue}, MaxDocs)]
    \cup
    [kind : {"ok"}, documents : SeqsUpTo(DocValues, MaxDocs),
     distances : SeqsUpTo(Distances, MaxDocs),
     hasMetas : {FALSE}, metadatas : {<<>>}]

\* The result the docstring of RAGPipeline asks of the store: the lists of
\* one result set, positionally aligned, of texts and of distances >= 0.
WellFormed(result) ==
    /\ result.kind = "ok"
    /\ Len(result.distances) = Len(result.documents)
    /\ result.hasMetas => Len(result.metadatas) = Len(result.documents)
    /\ \A i \in 1..Len(result.documents) : result.documents[i] \in Texts
    /\ \A i \in 1..Len(result.distances) : result.distances[i] >= 0

\* round(1.0 / (1.0 + dist), 4), for 1 + dist > 0
Similarity(dist) == (2 * ScoreScale + (1 + dist)) \div (2 * (1 + dist))

\* _retrieve that drops the entries it cannot convert and keeps the rest
RetrieveKeepsRest(result) ==
    LET metadatas == IF result.hasMetas
                     THEN result.metadatas
                     ELSE [i \in 1..Len(result.documents) |-> EmptyMeta]
        n == Min(Len(result.documents), Min(Len(result.distances), Len(metadatas)))
        good == {i \in 1..n : 1 + result.distances[i] > 0}
    IN  IF result.kind # "ok"
        THEN [raised |-> TRUE, chunks |-> <<>>]
        ELSE [raised |-> good # 1..n,
              chunks |-> [i \in 1..Cardinality(good) |->
                            LET j == CHOOSE k \in good :
                                       Cardinality({m \in good : m < k}) = i - 1
                            IN  [chunk_id |-> j - 1,
                                 text     |-> result.documents[j],
                                 score    |-> Similarity(result.distances[j]),
                                 metadata |-> metadatas[j]]]]

\* RAGPipeline._retrieve: the chunks, and whether the except clause ran
Retrieve(result) ==
    LET metadatas == IF result.hasMetas
                     THEN result.metadatas
                     ELSE [i \in 1..Len(result.documents) |-> EmptyMeta]
        n == Min(Len(result.documents), Min(Len(result.distances), Len(metadatas)))
    IN  IF result.kind # "ok"
        THEN [raised |-> TRUE, chunks |-> <<>>]
        ELSE IF \E i \in 1..n : 1 + result.distances[i] = 0
        THEN [raised |-> TRUE, chunks |-> <<>>]
        ELSE [raised |-> FALSE,
              chunks |-> [i \in 1..n |->
                            [chunk_id |-> i - 1,
                             text     |-> result.documents[i],
                             score    |-> Similarity(result.distances[i]),
                             metadata |-> metadatas[i]]]]

\* ------------------------------------------------------ prompt construction
\* len(repr(score)) of a similarity: "1.0", "0.5", else "0.dddd"
ScoreReprLen(score) == IF score \in {ScoreScale, ScoreScale \div 2} THEN 3 ELSE 6

\* len of "[Chunk chunk_i] (relevance s)\n" without s, for i < 10
SegmentHeaderLen == 29

\* len(segment) of a chunk
SegmentLen(chunk) == SegmentHeaderLen + ScoreReprLen(chunk.score) + TextLen(chunk.text)

\* _format_context that goes on to the next chunk (continue for break)
RECURSIVE FormatPartsSkipping(_, _)
FormatPartsSkipping(cs, budget) ==
    IF cs = <<>> THEN <<>>
    ELSE IF SegmentLen(Head(cs)) > budget THEN FormatPartsSkipping(Tail(cs), budget)
    ELSE <<Head(cs)>> \o FormatPartsSkipping(Tail(cs), budget - SegmentLen(Head(cs)))

\* RAGPipeline._format_context: the segments joined by "\n\n", kept as the
\* sequence of the chunks whose segments are included
RECURSIVE FormatParts(_, _)
FormatParts(cs, budget) ==
    IF cs = <<>> THEN <<>>
    ELSE IF SegmentLen(Head(cs)) > budget THEN <<>>
    ELSE <<Head(cs)>> \o FormatParts(Tail(cs), budget - SegmentLen(Head(cs)))

FormatContext(cs, budget) == FormatParts(cs, budget)

\* len("\n\n")
SeparatorLen == 2

RECURSIVE SegmentsLen(_)
SegmentsLen(cs) == IF cs = <<>> THEN 0 ELSE SegmentLen(Head(cs)) + SegmentsLen(Tail(cs))

\* len("\n\n".join(parts))
ContextLen(parts) ==
    IF parts = <<>> THEN 0
    ELSE SegmentsLen(parts) + SeparatorLen * (Len(parts) - 1)

\* USER_PROMPT_TEMPLATE.format(context=..., question=...)
UserPrompt(context_str, question) == [context |-> context_str, question |-> question]

\* ---------------------------------------------------------------- scoring
\* FaithfulnessScorer.score: 0.0 without computation for an empty response
\* or no chunks; "\n".join raises on a chunk that is not a text; otherwise
\* the clamped combination of the signals, which the embedding model
\* decides (signalled).
ScoreRaises(resp, context_chunks) ==
    /\ Truthy(resp)
    /\ context_chunks # <<>>
    /\ \E i \in 1..Len(context_chunks) : context_chunks[i] = NoneValue

score(resp, context_chunks, signalled) ==
    IF ~Truthy(resp) \/ context_chunks = <<>>
    THEN 0
    ELSE IF signalled < 0 THEN 0
    ELSE IF signalled > ScoreScale THEN ScoreScale
    ELSE signalled

\* --------------------------------------------------------------- audit log
\* _log called with the labels of the two loop entries exchanged
LogLoopLabelsSwapped(stage, message) ==
    [stage   |-> IF stage = "GENERATE" THEN "FAITHFULNESS"
                 ELSE IF stage = "FAITHFULNESS" THEN "GENERATE"
                 ELSE stage,
     message |-> message]

\* _log(stage, message), without the timestamp
Log(stage, message) == [stage |-> stage, message |-> message]

\* _build_response, without the latency and the timestamp
NoResponse == [request_id |-> 0]

\* _build_response that stores the final answer in raw_answer as well
BuildResponseRawOverwritten(rid, q, final_answer, raw, cs, faith, pass, retries, log) ==
    [request_id          |-> rid,
     query               |-> q,
     answer              |-> final_answer,
     raw_answer          |-> final_answer,
     chunks_used         |-> cs,
     faithfulness_score  |-> faith,
     passed_faithfulness |-> pass,
     retries_used        |-> retries,
     audit_log           |-> log]

BuildResponse(rid, q, final_answer, raw, cs, faith, pass, retries, log) ==
    [request_id          |-> rid,
     query               |-> q,
     answer              |-> final_answer,
     raw_answer          |-> raw,
     chunks_used         |-> cs,
     faithfulness_score  |-> faith,
     passed_faithfulness |-> pass,
     retries_used        |-> retries,
     audit_log           |-> log]

\* The record _persist_audit writes as one line
AuditRecord(resp) ==
    [request_id         |-> resp.request_id,
     query              |-> resp.query,
     faithfulness_score |-> resp.faithfulness_score,
     passed             |-> resp.passed_faithfulness,
     retries            |-> resp.retries_used,
     audit_log          |-> resp.audit_log]

\* A line written to the sink by an earlier request
OldLine == [request_id |-> 0]

\* ------------------------------------------------- calls outside of run
\* No call of _format_context on its own, no scorer on its own
FmtIdle == [pc |-> "unused"]
ScorerIdle == [pc |-> "unused"]
PairIdle == [pc |-> "unused"]
ProcsIdle == [pc |-> "unused"]
MetricsIdle == [pc |-> "unused"]
ApiIdle == [pc |-> "unused"]

\* The harness variables other than those of S are not in use
HarnessIdleExcept(S) ==
    /\ IF "fmt" \in S THEN TRUE ELSE fmt = FmtIdle
    /\ IF "scorer" \in S THEN TRUE ELSE scorer = ScorerIdle
    /\ IF "pair" \in S THEN TRUE ELSE pair = PairIdle
    /\ IF "procs" \in S THEN TRUE ELSE procs = ProcsIdle
    /\ IF "metrics" \in S THEN TRUE ELSE metrics = MetricsIdle
    /\ IF "api" \in S THEN TRUE ELSE api = ApiIdle

HarnessUnchangedExcept(S) ==
    /\ IF "fmt" \in S THEN TRUE ELSE fmt' = fmt
    /\ IF "scorer" \in S THEN TRUE ELSE scorer' = scorer
    /\ IF "pair" \in S THEN TRUE ELSE pair' = pair
    /\ IF "procs" \in S THEN TRUE ELSE procs' = procs
    /\ IF "metrics" \in S THEN TRUE ELSE metrics' = metrics
    /\ IF "api" \in S THEN TRUE ELSE api' = api

\* ------------------------------------------------------------ construction
\* RAGPipeline.__init__: fallback_message or self.FALLBACK
FallbackOf(param) == IF Truthy(param) THEN param ELSE FALLBACK

Init ==
    /\ max_retries \in 0..MaxRetriesBound
    /\ faithfulness_threshold \in Thresholds
    /\ max_context_chars \in Budgets
    /\ fallback_message \in {FallbackOf(p) : p \in FallbackParams}
    /\ audit_log_path \in AuditPathParams
    /\ sink \in {<<>>, <<OldLine>>}
    /\ pc = "idle"
    /\ request_id = 0
    /\ query = ""
    /\ chunks = <<>>
    /\ audit = <<>>
    /\ user_prompt = UserPrompt(<<>>, "")
    /\ chunk_texts = <<>>
    /\ raw_answer = ""
    /\ faithfulness = 0
    /\ passed = FALSE
    /\ retries_used = 0
    /\ attempt = 0
    /\ response = NoResponse
    /\ storeOutcome = [kind |-> "none", caught |-> FALSE]
    /\ llmCalls = 0
    /\ prompts = <<>>
    /\ outputs = <<>>
    /\ scoreCalls = 0
    /\ scores = <<>>
    /\ raisedAt = "none"
    /\ appendOutcome = "none"
    /\ sinkAtStart = sink
    /\ HarnessIdleExcept({})

\* ------------------------------------------------------------------- run
\* run, lines 179-181: a fresh request id and an empty audit list
Start ==
    /\ pc = "idle"
    /\ \E q \in Queries : query' = q
    /\ request_id' = 1
    /\ audit' = <<>>
    /\ pc' = "retrieve"
    /\ UNCHANGED <<config, sink, chunks, user_prompt, chunk_texts, raw_answer,
                   faithfulness, passed, retries_used, attempt, response, history>>
    /\ UNCHANGED harness

\* a run without the short-circuit
NoChunksNeverTaken(cs) == FALSE

\* if not chunks
NoChunks(cs) == cs = <<>>

\* How the store's answer is classified against its contract
OutcomeOf(result) ==
    IF result.kind = "raises" THEN "raised"
    ELSE IF WellFormed(result) THEN "wellformed"
    ELSE "malformed"

\* run, lines 184-202: retrieval, the short-circuit on no chunks, the prompt
RetrieveStep ==
    /\ pc = "retrieve"
    /\ \E result \in StoreResults :
         LET r   == Retrieve(result)
             log == Append(audit, Log("RETRIEVE", <<Len(r.chunks)>>))
         IN  /\ chunks' = r.chunks
             /\ storeOutcome' = [kind |-> OutcomeOf(result), caught |-> r.raised]
             /\ IF NoChunks(r.chunks)
                THEN /\ audit' = Append(log, Log("FALLBACK", <<"No chunks retrieved">>))
                     /\ response' = BuildResponse(request_id, query, fallback_message,
                                                  fallback_message, r.chunks, 0, FALSE, 0,
                                                  audit')
                     /\ pc' = "returned"
                     /\ UNCHANGED <<user_prompt, chunk_texts>>
                ELSE /\ audit' = log
                     /\ user_prompt' = UserPrompt(FormatContext(r.chunks, max_context_chars),
                                                  query)
                     /\ chunk_texts' = [i \in 1..Len(r.chunks) |-> r.chunks[i].text]
                     /\ response' = response
                     /\ pc' = "generate"
    /\ raw_answer' = ""
    /\ faithfulness' = 0
    /\ passed' = FALSE
    /\ retries_used' = 0
    /\ attempt' = 0
    /\ UNCHANGED <<config, sink, request_id, query, llmCalls, prompts, outputs, scoreCalls,
                   scores, raisedAt, appendOutcome, sinkAtStart>>
    /\ UNCHANGED harness

\* SYSTEM_PROMPT
SYSTEM_PROMPT == "You are a precise, factual assistant"

\* arguments of llm_fn that drop the context on a retry
LlmArgsContextDropped(prompt, att) ==
    <<SYSTEM_PROMPT, IF att = 0 THEN prompt ELSE UserPrompt(<<>>, prompt.question)>>

\* self.llm_fn(SYSTEM_PROMPT, user_prompt): the arguments of the call
LlmArgs(prompt, att) == <<SYSTEM_PROMPT, prompt>>

\* run, lines 206-207: the generation function returns a completion
Generate ==
    /\ pc = "generate"
    /\ \E o \in Outputs :
         /\ raw_answer' = o
         /\ outputs' = Append(outputs, o)
         /\ audit' = Append(audit, Log("GENERATE", <<attempt + 1, TextLen(o)>>))
    /\ llmCalls' = llmCalls + 1
    /\ prompts' = Append(prompts, LlmArgs(user_prompt, attempt))
    /\ pc' = "score"
    /\ UNCHANGED <<config, sink, request_id, query, chunks, user_prompt, chunk_texts,
                   faithfulness, passed, retries_used, attempt, response,
                   storeOutcome, scoreCalls, scores, raisedAt, appendOutcome,
                   sinkAtStart>>
    /\ UNCHANGED harness

\* a run that catches the error of the generation function and counts the
\* attempt as a failed one
GenerateRaisesCaught ==
    /\ pc = "generate"
    /\ llmCalls' = llmCalls + 1
    /\ prompts' = Append(prompts, LlmArgs(user_prompt, attempt))
    /\ raisedAt' = "generate"
    /\ retries_used' = attempt + 1
    /\ pc' = "generate"
    /\ UNCHANGED <<config, sink, request_id, query, chunks, audit, user_prompt,
                   chunk_texts, raw_answer, faithfulness, passed, attempt, response,
                   storeOutcome, outputs, scoreCalls, scores, appendOutcome,
                   sinkAtStart>>
    /\ UNCHANGED harness

\* run, line 206: the generation function raises; run has no handler
GenerateRaises ==
    /\ pc = "generate"
    /\ llmCalls' = llmCalls + 1
    /\ prompts' = Append(prompts, LlmArgs(user_prompt, attempt))
    /\ raisedAt' = "generate"
    /\ pc' = "raised"
    /\ UNCHANGED <<config, sink, locals, storeOutcome, outputs, scoreCalls, scores,
                   appendOutcome, sinkAtStart>>
    /\ UNCHANGED harness

\* a gate that lets every score pass
AcceptsEveryScore(faith, threshold) == faith >= 0

\* a strict comparison with the threshold
AcceptsStrictly(faith, threshold) == faith > threshold

\* if faithfulness >= self.faithfulness_threshold
Accepts(faith, threshold) == faith >= threshold

\* retries_used = attempt + 1
RetriesAfterFailure(att) == att + 1

\* for attempt in range(self.max_retries + 1) with one more iteration
LoopContinuesOnceMore(att, retries) == att < retries + 1

\* for attempt in range(self.max_retries + 1): is there a next iteration
LoopContinues(att, retries) == att + 1 < retries + 1

\* a final answer that is the raw answer whatever the gate said
FinalAnswerAlwaysRaw(pass, raw, fallback) == raw

\* final_answer = raw_answer if passed else self.fallback_message
FinalAnswer(pass, raw, fallback) == IF pass THEN raw ELSE fallback

\* run, lines 210-233: the scoring call, the decision, and after the last
\* iteration the fallback entry and the response
ScoreStep ==
    /\ pc = "score"
    /\ ~ScoreRaises(raw_answer, chunk_texts)
    /\ \E signalled \in ScoreSamples :
         LET faith == score(raw_answer, chunk_texts, signalled)
             log1  == Append(audit, Log("FAITHFULNESS", <<faith, faithfulness_threshold>>))
             log2  == Append(log1, Log("RETRY", <<faith, faithfulness_threshold>>))
             log3  == Append(log2, Log("FALLBACK", <<"all retries exhausted">>))
         IN  /\ faithfulness' = faith
             /\ scores' = Append(scores, faith)
             /\ IF Accepts(faith, faithfulness_threshold)
                THEN /\ passed' = TRUE
                     /\ retries_used' = retries_used
                     /\ attempt' = attempt
                     /\ audit' = log1
                     /\ response' = BuildResponse(request_id, query,
                                       FinalAnswer(TRUE, raw_answer, fallback_message),
                                       raw_answer, chunks, faith, TRUE, retries_used, log1)
                     /\ pc' = "persist"
                ELSE /\ passed' = FALSE
                     /\ retries_used' = RetriesAfterFailure(attempt)
                     /\ IF LoopContinues(attempt, max_retries)
                        THEN /\ attempt' = attempt + 1
                             /\ audit' = log2
                             /\ response' = response
                             /\ pc' = "generate"
                        ELSE /\ attempt' = attempt
                             /\ audit' = log3
                             /\ response' = BuildResponse(request_id, query,
                                               FinalAnswer(FALSE, raw_answer, fallback_message),
                                               raw_answer, chunks, faith, FALSE,
                                               RetriesAfterFailure(attempt), log3)
                             /\ pc' = "persist"
    /\ scoreCalls' = scoreCalls + 1
    /\ UNCHANGED <<config, sink, request_id, query, chunks, user_prompt, chunk_texts,
                   raw_answer, storeOutcome, llmCalls, prompts, outputs, raisedAt,
                   appendOutcome, sinkAtStart>>
    /\ UNCHANGED harness

\* run, line 210: score raises ("\n".join of a chunk that is no text); run
\* has no handler
ScoreStepRaises ==
    /\ pc = "score"
    /\ ScoreRaises(raw_answer, chunk_texts)
    /\ scoreCalls' = scoreCalls + 1
    /\ raisedAt' = "score"
    /\ pc' = "raised"
    /\ UNCHANGED <<config, sink, locals, storeOutcome, llmCalls, prompts, outputs, scores,
                   appendOutcome, sinkAtStart>>
    /\ UNCHANGED harness

\* _persist_audit, lines 292-293: no sink configured
PersistSkip ==
    /\ pc = "persist"
    /\ ~Truthy(audit_log_path)
    /\ appendOutcome' = "not_configured"
    /\ pc' = "returned"
    /\ UNCHANGED <<config, sink, locals, storeOutcome, llmCalls, prompts, outputs, scoreCalls,
                   scores, raisedAt, sinkAtStart>>
    /\ UNCHANGED harness

\* _persist_audit, lines 294-305: the record is appended as one line
PersistAppend ==
    /\ pc = "persist"
    /\ Truthy(audit_log_path)
    /\ sink' = Append(sink, AuditRecord(response))
    /\ appendOutcome' = "appended"
    /\ pc' = "returned"
    /\ UNCHANGED <<config, locals, storeOutcome, llmCalls, prompts, outputs, scoreCalls,
                   scores, raisedAt, sinkAtStart>>
    /\ UNCHANGED harness

\* _persist_audit without the except clause: the error reaches the caller
PersistFailsPropagated ==
    /\ pc = "persist"
    /\ Truthy(audit_log_path)
    /\ appendOutcome' = "failed"
    /\ raisedAt' = "persist"
    /\ pc' = "raised"
    /\ UNCHANGED <<config, sink, locals, storeOutcome, llmCalls, prompts, outputs, scoreCalls,
                   scores, sinkAtStart>>
    /\ UNCHANGED harness

\* _persist_audit, lines 306-307: the append fails and the error is logged
PersistFails ==
    /\ pc = "persist"
    /\ Truthy(audit_log_path)
    /\ appendOutcome' = "failed"
    /\ pc' = "returned"
    /\ UNCHANGED <<config, sink, locals, storeOutcome, llmCalls, prompts, outputs, scoreCalls,
                   scores, raisedAt, sinkAtStart>>
    /\ UNCHANGED harness

Next ==
    \/ Start
    \/ RetrieveStep
    \/ Generate
    \/ GenerateRaises
    \/ ScoreStep
    \/ ScoreStepRaises
    \/ PersistSkip
    \/ PersistAppend
    \/ PersistFails

Spec == Init /\ [][Next]_vars

TypeOK ==
    /\ pc \in {"idle", "retrieve", "generate", "score", "persist", "returned", "raised"}
    /\ max_retries \in 0..MaxRetriesBound
    /\ attempt \in 0..max_retries
    /\ faithfulness \in 0..ScoreScale
    /\ Len(outputs) <= llmCalls
    /\ Len(scores) <= scoreCalls

\* ------------------------------------------------------------------ claims
\* run has returned or is about to (the response is built)
HasResponse == response # NoResponse

\* run has returned its response to the caller
Returned == pc = "returned"

\* the attempts of the run whose score reached the threshold
PassingAttempts == {i \in 1..Len(scores) : scores[i] >= faithfulness_threshold}

\* every attempt the run was allowed was made and scored below the threshold
AllAttemptsFailed ==
    /\ Len(scores) = max_retries + 1
    /\ PassingAttempts = {}

Stages(log) == [i \in 1..Len(log) |-> log[i].stage]

\* C1: the answer of every result is the fallback message or the output of
\* an attempt of this run that scored at least the threshold.
C1_AnswerIsFallbackOrPassingOutput ==
    HasResponse =>
        \/ response.answer = fallback_message
        \/ \E i \in PassingAttempts : outputs[i] = response.answer

\* A run returned the output of its second attempt, after a failed first.
C1_Witness ==
    /\ Returned
    /\ response.answer # fallback_message
    /\ Len(scores) = 2
    /\ scores[1] < faithfulness_threshold
    /\ response.answer = outputs[2]

\* C2: retries_used never exceeds max_retries, and equals max_retries when
\* all max_retries + 1 attempts scored below the threshold.
C2_RetriesUsedWithinMax ==
    HasResponse =>
        /\ response.retries_used <= max_retries
        /\ AllAttemptsFailed => response.retries_used = max_retries

\* C3: with at least one chunk and every attempt below the threshold, the
\* result has passed_faithfulness false, the fallback message as answer and
\* the output of the last attempt as raw_answer.
C3_ExhaustedKeepsLastOutput ==
    (HasResponse /\ chunks # <<>> /\ PassingAttempts = {}) =>
        /\ response.passed_faithfulness = FALSE
        /\ response.answer = fallback_message
        /\ outputs # <<>>
        /\ response.raw_answer = outputs[Len(outputs)]

\* A run fell back after two different outputs; the last one is kept.
C3_Witness ==
    /\ Returned
    /\ chunks # <<>>
    /\ PassingAttempts = {}
    /\ Len(outputs) >= 2
    /\ outputs[1] # outputs[Len(outputs)]
    /\ response.raw_answer = outputs[Len(outputs)]
    /\ response.raw_answer # response.answer

\* C4: an attempt that scores at least the threshold is the last call of the
\* run to the generation function and to the scorer; the result passes with
\* answer and raw_answer that attempt's output, and a passing first attempt
\* leaves retries_used at 0.
C4_AcceptsImmediately ==
    \A i \in PassingAttempts :
        /\ Len(scores) = i
        /\ scoreCalls = i
        /\ Len(outputs) = i
        /\ llmCalls = i
        /\ pc \in {"persist", "returned"}
        /\ response.passed_faithfulness = TRUE
        /\ response.answer = outputs[i]
        /\ response.raw_answer = outputs[i]
        /\ i = 1 => response.retries_used = 0

\* A first attempt scored exactly the threshold and was returned, with
\* retries left.
C4_Witness ==
    /\ Returned
    /\ max_retries > 0
    /\ scores = <<faithfulness_threshold>>
    /\ response.retries_used = 0
    /\ response.answer = outputs[1]

\* C5: when retrieval yields no chunk, run returns the fallback message with
\* passed_faithfulness false and retries_used 0, without any generation or
\* scoring call.
C5_NoChunksShortCircuit ==
    (storeOutcome.kind # "none" /\ chunks = <<>>) =>
        /\ Returned
        /\ llmCalls = 0
        /\ scoreCalls = 0
        /\ response.answer = fallback_message
        /\ response.passed_faithfulness = FALSE
        /\ response.retries_used = 0

\* The store returned a well-formed empty result and run has returned.
C5_Witness ==
    /\ Returned
    /\ storeOutcome.kind = "wellformed"
    /\ chunks = <<>>
    /\ response.answer = fallback_message

\* C6: a run that returns while a sink is configured and the append does not
\* fail has appended exactly one record, its own, after the lines the sink
\* held before.
C6_OneRecordPerRequest ==
    (Returned /\ Truthy(audit_log_path) /\ appendOutcome # "failed") =>
        sink = Append(sinkAtStart, AuditRecord(response))

C8_GenerationErrorPropagates ==
    raisedAt = "generate" =>
        /\ pc = "raised"
        /\ ~HasResponse
        /\ llmCalls = Len(outputs) + 1
        /\ scoreCalls = Len(outputs)
        /\ retries_used = Len(scores)
        /\ sink = sinkAtStart

\* The generation function raised on a retry.
C8_Witness ==
    /\ pc = "raised"
    /\ raisedAt = "generate"
    /\ Len(outputs) >= 1
    /\ max_retries > Len(outputs)

\* C9: when the append to the sink fails, run returns, and its result is the
\* one built from the run's values before the append was tried.
C9_AppendFailureKeepsResult ==
    appendOutcome = "failed" =>
        /\ Returned
        /\ raisedAt = "none"
        /\ response = BuildResponse(request_id, query,
                                    FinalAnswer(passed, raw_answer, fallback_message),
                                    raw_answer, chunks, faithfulness, passed,
                                    retries_used, audit)

\* The append failed after an attempt passed, and run returned its output.
C9_Witness ==
    /\ Returned
    /\ appendOutcome = "failed"
    /\ sink = sinkAtStart
    /\ response.passed_faithfulness = TRUE
    /\ response.answer = raw_answer

\* C10: the audit log of a run in which an attempt passes starts with
\* RETRIEVE, and each of its GENERATE entries, one per attempt, is directly
\* followed by the FAITHFULNESS entry of that attempt.
C10_PassingLogOrder ==
    (HasResponse /\ PassingAttempts # {}) =>
        LET st == Stages(response.audit_log)
            gen == {i \in 1..Len(st) : st[i] = "GENERATE"}
            fth == {i \in 1..Len(st) : st[i] = "FAITHFULNESS"}
        IN  /\ st[1] = "RETRIEVE"
            /\ Cardinality(gen) = Len(outputs)
            /\ Cardinality(fth) = Len(scores)
            /\ gen # {}
            /\ \A i \in gen : i > 1 /\ i < Len(st) /\ st[i + 1] = "FAITHFULNESS"
            /\ \A i \in fth : i > 1 /\ st[i - 1] = "GENERATE"

\* A run passed on its second attempt; its log has two GENERATE entries.
C10_Witness ==
    /\ Returned
    /\ PassingAttempts = {2}
    /\ Cardinality({i \in 1..Len(response.audit_log) :
                      response.audit_log[i].stage = "GENERATE"}) = 2

\* ------------------------------------------- _format_context on its own
\* Defaults of RAGPipeline.__init__
DefaultMaxRetries == 2
DefaultThreshold == 7000

\* The run variables of an instance with the default configuration that
\* serves no request
NoRun ==
    /\ max_retries = DefaultMaxRetries
    /\ faithfulness_threshold = DefaultThreshold
    /\ fallback_message = FallbackOf(NoneValue)
    /\ audit_log_path = NoneValue
    /\ sink = <<>>
    /\ pc = "idle"
    /\ request_id = 0
    /\ query = ""
    /\ chunks = <<>>
    /\ audit = <<>>
    /\ user_prompt = UserPrompt(<<>>, "")
    /\ chunk_texts = <<>>
    /\ raw_answer = ""
    /\ faithfulness = 0
    /\ passed = FALSE
    /\ retries_used = 0
    /\ attempt = 0
    /\ response = NoResponse
    /\ storeOutcome = [kind |-> "none", caught |-> FALSE]
    /\ llmCalls = 0
    /\ prompts = <<>>
    /\ outputs = <<>>
    /\ scoreCalls = 0
    /\ scores = <<>>
    /\ raisedAt = "none"
    /\ appendOutcome = "none"
    /\ sinkAtStart = sink

\* Texts and relevance scores of the chunks, and the budgets: nothing fits,
\* one segment fits, two fit, the default
FmtTexts == {"d1", "d333", "d55555"}
FmtScores == {Similarity(1), Similarity(2)}
FmtBudgets == {0, 36, 72, 75, DefaultContextChars}

\* Lists of RetrievedChunk as _retrieve numbers them
FmtChunkLists ==
    UNION {{[i \in 1..k |-> [chunk_id |-> i - 1, text |-> ts[i], score |-> ss[i],
                             metadata |-> EmptyMeta]] :
              ts \in [1..k -> FmtTexts], ss \in [1..k -> FmtScores]} :
           k \in 0..MaxFmtChunks}

FmtInit ==
    /\ NoRun
    /\ max_context_chars \in FmtBudgets
    /\ \E cs \in FmtChunkLists :
         fmt = [pc |-> "call", chunks |-> cs, parts |-> <<>>, length |-> 0]
    /\ HarnessIdleExcept({"fmt"})

\* context_str = self._format_context(chunks)
FormatCall ==
    /\ fmt.pc = "call"
    /\ LET parts == FormatContext(fmt.chunks, max_context_chars)
       IN  fmt' = [fmt EXCEPT !.pc = "done", !.parts = parts,
                              !.length = ContextLen(parts)]
    /\ UNCHANGED <<config, sink, pc, locals, history>>
    /\ HarnessUnchangedExcept({"fmt"})

FmtNext == FormatCall

SpecFormat == FmtInit /\ [][FmtNext]_vars

\* C11: every call of the generation function in a run has the same
\* arguments: the system prompt and the user prompt built once from the
\* chunks and the query.
C11_SamePromptEveryAttempt ==
    /\ Len(prompts) = llmCalls
    /\ \A i \in 1..Len(prompts) :
         /\ prompts[i] = prompts[1]
         /\ prompts[i] = <<SYSTEM_PROMPT,
                           UserPrompt(FormatContext(chunks, max_context_chars), query)>>

\* The generation function was called three times, after two attempts with
\* different outputs and scores.
C11_Witness ==
    /\ Returned
    /\ Len(prompts) = 3
    /\ outputs[1] # outputs[2]
    /\ scores[1] # scores[2]

\* The prefix of the chunks that _format_context included, and the length of
\* the segments of the first i chunks
FmtIncluded == Len(fmt.parts)
FmtUsed(i) == SegmentsLen(SubSeq(fmt.chunks, 1, i))

\* C12: the context consists of the complete segments of a prefix of the
\* chunks, in order; every included segment fitted the budget that was left
\* and the first chunk left out did not.
C12_ContextIsPrefixOfWholeSegments ==
    fmt.pc = "done" =>
        /\ FmtIncluded <= Len(fmt.chunks)
        /\ fmt.parts = SubSeq(fmt.chunks, 1, FmtIncluded)
        /\ \A i \in 1..FmtIncluded :
             SegmentLen(fmt.chunks[i]) <= max_context_chars - FmtUsed(i - 1)
        /\ FmtIncluded < Len(fmt.chunks) =>
             SegmentLen(fmt.chunks[FmtIncluded + 1]) > max_context_chars - FmtUsed(FmtIncluded)
        /\ fmt.length = FmtUsed(FmtIncluded)
                        + (IF FmtIncluded = 0 THEN 0 ELSE SeparatorLen * (FmtIncluded - 1))

\* A chunk was left out and a later chunk, which would have fitted, too.
C12_Witness ==
    /\ fmt.pc = "done"
    /\ FmtIncluded >= 1
    /\ FmtIncluded + 2 <= Len(fmt.chunks)
    /\ SegmentLen(fmt.chunks[FmtIncluded + 2]) <= max_context_chars - FmtUsed(FmtIncluded)

\* C13: the context that _format_context returns is no longer than
\* max_context_chars.
C13_ContextWithinBudget ==
    fmt.pc = "done" => fmt.length <= max_context_chars

\* ---------------------------------------------------------------------------
\* FaithfulnessScorer (src/evaluation/faithfulness.py)
\*
\* A text is a sequence of sentences; a sentence is its whitespace-separated
\* words and the terminator attached to the last of them.  Similarities are
\* hundredths (SimScale), weights are millionths (WeightScale), scores,
\* penalties and the fields of a report are 1e-4 (ScoreScale).
\* ---------------------------------------------------------------------------

SimScale == 100
WeightScale == 1000000
\* abs(total - 1.0) > 1e-6
WeightTolerance == 1
CLAIM_SEM_THRESHOLD == 55
CLAIM_LEX_THRESHOLD == 35
\* if semantic_sim >= 0.55
HedgeSemThreshold == 55
\* hedge_ratio * 0.25
HedgeFactor == 25
\* hedge_max_penalty: float = 0.10
DefaultHedgeCap == 1000
HEDGE_WORDS == {"perhaps", "maybe", "possibly", "might", "could", "probably",
                "likely", "seems", "appears", "suggests", "uncertain", "unclear",
                "not sure", "unsure"}

Max(a, b) == IF a > b THEN a ELSE b
MaxOf(S) == CHOOSE x \in S : \A y \in S : y <= x

Sentence(ws, e) == [words |-> ws, end |-> e]

\* The sentences a response is made of: two claims the context supports
\* lexically, a hedged claim with a repeated word, a question, a fragment with
\* a hedge word, a claim with three numbers
ResponseSentences ==
    { Sentence(<<"the", "tower", "is", "tall">>, "."),
      Sentence(<<"it", "has", "1,000", "steps">>, "."),
      Sentence(<<"perhaps", "it", "it", "sways">>, "."),
      Sentence(<<"is", "it", "really", "tall">>, "?"),
      Sentence(<<"yes", "maybe">>, "."),
      Sentence(<<"costs", "7", "or", "42", "or", "99">>, ".") }

\* The chunks of the context
ChunkTexts ==
    { <<Sentence(<<"The", "tower", "is", "tall">>, ".")>>,
      <<Sentence(<<"it", "has", "42", "floors", "and", "1000", "steps">>, ".")>> }

NumberWords == {"7", "42", "99", "1000", "1,000"}

\* text.lower()
Lower(w) == IF w = "The" THEN "the" ELSE w

\* re.findall(r"[a-z0-9]+", ...) on one word
AlnumRuns(w) == IF w = "1,000" THEN {"1", "000"} ELSE {Lower(w)}

\* re.findall(r"[a-z]+", ...) on one word
AlphaRuns(w) == IF w \in NumberWords THEN {} ELSE {Lower(w)}

\* NUMBER_RE.findall on one word, commas removed
NumbersIn(w) ==
    IF w = "1,000" THEN {"1000"} ELSE IF w \in NumberWords THEN {w} ELSE {}

WordsOf(text) == UNION {{text[i].words[j] : j \in 1..Len(text[i].words)} :
                        i \in 1..Len(text)}

tokenise(text) == UNION {AlnumRuns(w) : w \in WordsOf(text)}

extract_numbers(text) == UNION {NumbersIn(w) : w \in WordsOf(text)}

IsClaim(s) == s.end # "?" /\ Len(s.words) >= 4

split_claims(text) == SelectSeq(text, IsClaim)

\* "\n".join(context_chunks)
RECURSIVE Combined(_)
Combined(context_chunks) ==
    IF context_chunks = <<>> THEN <<>>
    ELSE Head(context_chunks) \o Combined(Tail(context_chunks))

\* The embedding model: the cosine similarity of two texts, in hundredths
EmbeddingModels == {"opposed", "near", "edge", "lexical"}

Jaccard(A, B) ==
    IF A \cup B = {} THEN 0
    ELSE (SimScale * Cardinality(A \cap B)) \div Cardinality(A \cup B)

Sim(m, a, b) ==
    CASE m = "opposed" -> 0 - 50
      [] m = "near"    -> CLAIM_SEM_THRESHOLD - 1
      [] m = "edge"    -> CLAIM_SEM_THRESHOLD
      [] OTHER         -> Jaccard(tokenise(a), tokenise(b))

\* The encode calls that raise
EncodeSites == {"semantic", "coverage", "detail"}

Sims(text, context_chunks, m) == {Sim(m, text, context_chunks[i]) : i \in 1..Len(context_chunks)}

\* round(x, 4) of num/den (den > 0): nearest, ties to even
Round(num, den) ==
    LET q == num \div den
        r == num % den
    IN  IF 2 * r < den THEN q
        ELSE IF 2 * r > den THEN q + 1
        ELSE IF q % 2 = 0 THEN q ELSE q + 1

One == [n |-> 1, d |-> 1]
Zero == [n |-> 0, d |-> 1]

\* ---- 1. semantic similarity (hundredths)
SemanticSimilarityUncaught(resp, context_chunks, emb) ==
    IF context_chunks = <<>> THEN 0
    ELSE Max(MaxOf(Sims(resp, context_chunks, emb.model)), 0)

semantic_similarity(resp, context_chunks, emb) ==
    IF "semantic" \in emb.fails THEN 0
    ELSE IF context_chunks = <<>> THEN 0
    ELSE Max(MaxOf(Sims(resp, context_chunks, emb.model)), 0)

\* best_sim and lex_overlap of one claim
BestSim(claim, context_chunks, m) ==
    IF context_chunks = <<>> THEN 0 ELSE MaxOf(Sims(<<claim>>, context_chunks, m))

LexOverlap(claim, ctx_tokens) ==
    [n |-> Cardinality(tokenise(<<claim>>) \cap ctx_tokens),
     d |-> Max(Cardinality(tokenise(<<claim>>)), 1)]

ClaimSupportedSemanticOnly(claim, context_chunks, ctx_tokens, m) ==
    BestSim(claim, context_chunks, m) >= CLAIM_SEM_THRESHOLD

ClaimSupported(claim, context_chunks, ctx_tokens, m) ==
    \/ BestSim(claim, context_chunks, m) >= CLAIM_SEM_THRESHOLD
    \/ SimScale * LexOverlap(claim, ctx_tokens).n
         >= CLAIM_LEX_THRESHOLD * LexOverlap(claim, ctx_tokens).d

\* ---- 2. claim coverage (a fraction)
claim_coverage(resp, context_chunks, emb) ==
    LET claims == split_claims(resp)
        ctx_tokens == tokenise(Combined(context_chunks))
    IN  IF claims = <<>> THEN One
        ELSE IF "coverage" \in emb.fails THEN Zero
        ELSE [n |-> Cardinality({i \in 1..Len(claims) :
                        ClaimSupported(claims[i], context_chunks, ctx_tokens, emb.model)}),
              d |-> Len(claims)]

\* ---- 3. numeric consistency (a fraction)
NumericConsistencyNoDefault(resp, combined) ==
    LET resp_nums == extract_numbers(resp)
        ctx_nums == extract_numbers(combined)
    IN  IF resp_nums = {} THEN Zero
        ELSE [n |-> Cardinality(resp_nums \cap ctx_nums),
              d |-> Cardinality(resp_nums)]

numeric_consistency(resp, combined) ==
    LET resp_nums == extract_numbers(resp)
        ctx_nums == extract_numbers(combined)
    IN  IF resp_nums = {} THEN One
        ELSE [n |-> Cardinality(resp_nums \cap ctx_nums),
              d |-> Cardinality(resp_nums)]

\* ---- 4. hedge penalty (1e-4)
HedgePenaltyAlways(resp, semantic_sim, cap) ==
    LET words == UNION {AlphaRuns(w) : w \in WordsOf(resp)}
        hedge_hits == Cardinality(words \cap HEDGE_WORDS)
        den == Max(Cardinality(words), 1)
        num == hedge_hits * HedgeFactor * (SimScale - semantic_sim)
    IN  IF num >= cap * den THEN cap ELSE Round(num, den)

hedge_penalty(resp, semantic_sim, cap) ==
    IF semantic_sim >= HedgeSemThreshold THEN 0
    ELSE LET words == UNION {AlphaRuns(w) : w \in WordsOf(resp)}
             hedge_hits == Cardinality(words \cap HEDGE_WORDS)
             den == Max(Cardinality(words), 1)
             num == hedge_hits * HedgeFactor * (SimScale - semantic_sim)
         IN  IF num >= cap * den THEN cap ELSE Round(num, den)

\* The signals of one call, unrounded
Signals(resp, context_chunks, emb, cap) ==
    LET sem == semantic_similarity(resp, context_chunks, emb)
    IN  [sem |-> sem,
         cov |-> claim_coverage(resp, context_chunks, emb),
         num |-> numeric_consistency(resp, Combined(context_chunks)),
         penalty |-> hedge_penalty(resp, sem, cap)]

\* raw = w_s*sem + w_c*cov + w_n*num, as RawNum / RawDen in 1e-4
RawDen(sig) == ((WeightScale * SimScale) \div ScoreScale) * sig.cov.d * sig.num.d

RawNumNoNumeric(weights, sig) ==
      weights.semantic * sig.sem * sig.cov.d * sig.num.d
    + weights.coverage * SimScale * sig.cov.n * sig.num.d

RawNum(weights, sig) ==
      weights.semantic * sig.sem * sig.cov.d * sig.num.d
    + weights.coverage * SimScale * sig.cov.n * sig.num.d
    + weights.numeric * SimScale * sig.num.n * sig.cov.d

\* round(max(0.0, min(1.0, raw - penalty)), 4)
FinalUnclamped(weights, sig) ==
    Round(RawNum(weights, sig) - sig.penalty * RawDen(sig), RawDen(sig))

Final(weights, sig) ==
    LET t == RawNum(weights, sig) - sig.penalty * RawDen(sig)
    IN  IF t <= 0 THEN 0
        ELSE IF t >= ScoreScale * RawDen(sig) THEN ScoreScale
        ELSE Round(t, RawDen(sig))

\* if not response or not context_chunks
EarlyReturnResponseOnly(resp, context_chunks) == resp = <<>>

EarlyReturn(resp, context_chunks) == resp = <<>> \/ context_chunks = <<>>

\* index of the first largest similarity (np.argmax), from 0
BestIdx(claim, context_chunks, m) ==
    (CHOOSE i \in 1..Len(context_chunks) :
        /\ Sim(m, <<claim>>, context_chunks[i]) = BestSim(claim, context_chunks, m)
        /\ \A j \in 1..(i - 1) :
             Sim(m, <<claim>>, context_chunks[j]) < BestSim(claim, context_chunks, m)) - 1

NoSnippet == <<>>

\* per-claim detail
score_claims(resp, context_chunks, emb) ==
    LET claims == split_claims(resp)
        ctx_tokens == tokenise(Combined(context_chunks))
    IN  IF "detail" \in emb.fails
        THEN [i \in 1..Len(claims) |->
                [claim |-> claims[i], supported |-> FALSE, error |-> TRUE]]
        ELSE [i \in 1..Len(claims) |->
                LET supported == ClaimSupported(claims[i], context_chunks, ctx_tokens, emb.model)
                    best_idx == BestIdx(claims[i], context_chunks, emb.model)
                IN  [claim |-> claims[i],
                     supported |-> supported,
                     best_chunk_idx |-> best_idx,
                     semantic_sim |-> (ScoreScale \div SimScale)
                                        * BestSim(claims[i], context_chunks, emb.model),
                     lexical_overlap |-> Round(ScoreScale * LexOverlap(claims[i], ctx_tokens).n,
                                               LexOverlap(claims[i], ctx_tokens).d),
                     source_snippet |-> IF supported THEN context_chunks[best_idx + 1]
                                        ELSE NoSnippet]]

EarlyReport ==
    [overall |-> 0, semantic |-> 0, coverage |-> 0, numeric |-> 0, penalty |-> 0,
     claims |-> <<>>]

\* the dict score_detailed returns
DetailedReportPenaltyDropped(weights, sig, claims) ==
    [overall |-> Final(weights, [sig EXCEPT !.penalty = 0]),
     semantic |-> (ScoreScale \div SimScale) * sig.sem,
     coverage |-> Round(ScoreScale * sig.cov.n, sig.cov.d),
     numeric |-> Round(ScoreScale * sig.num.n, sig.num.d),
     penalty |-> sig.penalty,
     claims |-> claims]

DetailedReport(weights, sig, claims) ==
    [overall |-> Final(weights, sig),
     semantic |-> (ScoreScale \div SimScale) * sig.sem,
     coverage |-> Round(ScoreScale * sig.cov.n, sig.cov.d),
     numeric |-> Round(ScoreScale * sig.num.n, sig.num.d),
     penalty |-> sig.penalty,
     claims |-> claims]

\* ---------------------------------------------------------------------------
\* A FaithfulnessScorer constructed and called on its own
\* ---------------------------------------------------------------------------

MaxSentences == 2

DEFAULT_WEIGHTS == [semantic |-> 400000, coverage |-> 400000, numeric |-> 200000]

Weights(s, c, n) == [given |-> TRUE, semantic |-> s, coverage |-> c, numeric |-> n]

\* weights=None
NoWeights == [given |-> FALSE, semantic |-> 0, coverage |-> 0, numeric |-> 0]

\* Sums 1.0 + 1e-6, 1.0 - 1e-6 and 1.0 with a negative weight
AcceptedWeights ==
    { Weights(400001, 400000, 200000),
      Weights(399999, 400000, 200000),
      Weights(1200000, 0 - 200000, 0) }

\* Sums 1.0 + 2e-6, 1.0 - 2e-6 and 0.9
RejectedWeights ==
    { Weights(400002, 400000, 200000),
      Weights(399998, 400000, 200000),
      Weights(400000, 400000, 100000) }

SmallHedgeCap == 300

Total(weights) == weights.semantic + weights.coverage + weights.numeric

\* The constructor's arguments
ScorerArgs ==
    {[weights |-> w,
      hedge_max_penalty |-> IF Total(w) = WeightScale - WeightTolerance
                            THEN SmallHedgeCap ELSE DefaultHedgeCap] :
        w \in {NoWeights} \cup AcceptedWeights \cup RejectedWeights}

\* self.weights = weights or self.DEFAULT_WEIGHTS
WeightsOf(w) ==
    IF w.given
    THEN [semantic |-> w.semantic, coverage |-> w.coverage, numeric |-> w.numeric]
    ELSE DEFAULT_WEIGHTS

Abs(x) == IF x < 0 THEN 0 - x ELSE x

\* abs(total - 1.0) > 1e-6
WeightsRejectedNoAbs(weights) == Total(weights) - WeightScale > WeightTolerance

WeightsRejected(weights) == Abs(Total(weights) - WeightScale) > WeightTolerance

Responses ==
    UNION {[1..k -> ResponseSentences] : k \in 0..MaxSentences}

\* Lists of distinct chunks
ContextChunkLists ==
    {cc \in UNION {[1..k -> ChunkTexts] : k \in 0..Cardinality(ChunkTexts)} :
        \A i, j \in 1..Len(cc) : i # j => cc[i] # cc[j]}

ScoreFailSets == SUBSET {"semantic", "coverage"}
DetailFailSets == {{}, {"detail"}, EncodeSites}

NoSignals == [sem |-> 0, cov |-> Zero, num |-> Zero, penalty |-> 0]

\* The encode calls a call makes
EncodeSitesOf(fn, resp, context_chunks) ==
    {"semantic"}
    \cup (IF split_claims(resp) # <<>> THEN {"coverage"} ELSE {})
    \cup (IF fn = "score_detailed" /\ split_claims(resp) # <<>> THEN {"detail"} ELSE {})

SignalNames == {"semantic", "coverage", "numeric", "penalty"}

ScorerInit ==
    /\ NoRun
    /\ max_context_chars = DefaultContextChars
    /\ HarnessIdleExcept({"scorer"})
    /\ \E args \in ScorerArgs :
         scorer = [pc |-> "new",
                   args |-> args,
                   weights |-> DEFAULT_WEIGHTS,
                   hedge_max_penalty |-> DefaultHedgeCap,
                   model_loaded |-> FALSE,
                   fn |-> "none",
                   response |-> <<>>,
                   context_chunks |-> <<>>,
                   emb |-> [model |-> "lexical", fails |-> {}],
                   encoded |-> {},
                   computed |-> {},
                   signals |-> NoSignals,
                   result |-> 0,
                   report |-> EarlyReport]

\* FaithfulnessScorer(weights=..., hedge_max_penalty=...)
Construct ==
    /\ scorer.pc = "new"
    /\ ~WeightsRejected(WeightsOf(scorer.args.weights))
    /\ scorer' = [scorer EXCEPT !.pc = "ready",
                                !.weights = WeightsOf(scorer.args.weights),
                                !.hedge_max_penalty = scorer.args.hedge_max_penalty,
                                !.model_loaded = TRUE]
    /\ UNCHANGED <<config, sink, pc, locals, history>>
    /\ HarnessUnchangedExcept({"scorer"})

\* raise ValueError
ConstructRaises ==
    /\ scorer.pc = "new"
    /\ WeightsRejected(WeightsOf(scorer.args.weights))
    /\ scorer' = [scorer EXCEPT !.pc = "raised",
                                !.weights = WeightsOf(scorer.args.weights),
                                !.hedge_max_penalty = scorer.args.hedge_max_penalty]
    /\ UNCHANGED <<config, sink, pc, locals, history>>
    /\ HarnessUnchangedExcept({"scorer"})

\* scorer.score(response, context_chunks)
ScoreCall ==
    /\ scorer.pc = "ready"
    /\ \E resp \in Responses, cc \in ContextChunkLists,
          m \in EmbeddingModels, fails \in ScoreFailSets :
         LET emb == [model |-> m, fails |-> fails]
             early == EarlyReturn(resp, cc)
             sig == Signals(resp, cc, emb, scorer.hedge_max_penalty)
         IN  scorer' = [scorer EXCEPT
                 !.pc = "scored", !.fn = "score",
                 !.response = resp, !.context_chunks = cc, !.emb = emb,
                 !.encoded = IF early THEN {} ELSE EncodeSitesOf("score", resp, cc),
                 !.computed = IF early THEN {} ELSE SignalNames,
                 !.signals = IF early THEN NoSignals ELSE sig,
                 !.result = IF early THEN 0 ELSE Final(scorer.weights, sig)]
    /\ UNCHANGED <<config, sink, pc, locals, history>>
    /\ HarnessUnchangedExcept({"scorer"})

\* scorer.score_detailed(response, context_chunks)
ScoreDetailedCall ==
    /\ scorer.pc = "ready"
    /\ \E resp \in Responses, cc \in ContextChunkLists,
          m \in EmbeddingModels, fails \in DetailFailSets :
         LET emb == [model |-> m, fails |-> fails]
             early == EarlyReturn(resp, cc)
             sig == Signals(resp, cc, emb, scorer.hedge_max_penalty)
         IN  scorer' = [scorer EXCEPT
                 !.pc = "detailed", !.fn = "score_detailed",
                 !.response = resp, !.context_chunks = cc, !.emb = emb,
                 !.encoded = IF early THEN {}
                             ELSE EncodeSitesOf("score_detailed", resp, cc),
                 !.computed = IF early THEN {} ELSE SignalNames,
                 !.signals = IF early THEN NoSignals ELSE sig,
                 !.report = IF early THEN EarlyReport
                            ELSE DetailedReport(scorer.weights, sig,
                                                score_claims(resp, cc, emb))]
    /\ UNCHANGED <<config, sink, pc, locals, history>>
    /\ HarnessUnchangedExcept({"scorer"})

ScorerNext == Construct \/ ConstructRaises \/ ScoreCall \/ ScoreDetailedCall

SpecScorer == ScorerInit /\ [][ScorerNext]_vars

\* ---------------------------------------------------------------------------
\* Claims about the FaithfulnessScorer
\* ---------------------------------------------------------------------------

ScoreReturned == scorer.pc = "scored"
ReportReturned == scorer.pc = "detailed"
CallReturned == ScoreReturned \/ ReportReturned
EarlyInputs == scorer.response = <<>> \/ scorer.context_chunks = <<>>

\* raw - penalty of the recorded signals, times RawDen
Unclamped == RawNum(scorer.weights, scorer.signals)
               - scorer.signals.penalty * RawDen(scorer.signals)

\* C14: for every response, context, accepted weights, hedge cap and embedding
\* outcome, the value score returns lies in [0.0, 1.0]
C14_ScoreInUnitInterval ==
    ScoreReturned => (0 <= scorer.result /\ scorer.result <= ScoreScale)

\* raw - penalty is negative while an encode call has failed: the clamp acts
C14_Witness ==
    /\ ScoreReturned
    /\ scorer.emb.fails \cap scorer.encoded # {}
    /\ Unclamped < 0
    /\ scorer.result = 0

\* C15: with an empty response or an empty chunk list, score returns 0.0 and
\* score_detailed returns overall 0.0 with no claims; no encode call is made
\* and no signal is computed
C15_EmptyInputShortCircuits ==
    (CallReturned /\ EarlyInputs) =>
        /\ scorer.encoded = {}
        /\ scorer.computed = {}
        /\ ScoreReturned => scorer.result = 0
        /\ ReportReturned => (scorer.report.overall = 0 /\ scorer.report.claims = <<>>)

\* a response with a claim scored in detail against no chunks
C15_Witness ==
    /\ ReportReturned
    /\ split_claims(scorer.response) # <<>>
    /\ scorer.context_chunks = <<>>

\* The encode calls that raised during the call
Failed == scorer.emb.fails \cap scorer.encoded

\* The value the call returns
Value == IF ScoreReturned THEN scorer.result ELSE scorer.report.overall

\* self._faithfulness = FaithfulnessScorer()
PipelineScorer ==
    scorer.weights = DEFAULT_WEIGHTS /\ scorer.hedge_max_penalty = DefaultHedgeCap

\* faithfulness_threshold=0.50 of the test pipelines
TestThreshold == 5000

\* The most the default weights give once a semantic or a coverage signal is 0.0
DegradedCeiling ==
    (DEFAULT_WEIGHTS.coverage + DEFAULT_WEIGHTS.numeric) \div (WeightScale \div ScoreScale)

\* What every call with a failing encode call does: the call returns, the
\* failing signal is 0.0, the numeric signal is still the matched fraction,
\* the value is in [0, 1]
FailureDegrades ==
    /\ "semantic" \in Failed => scorer.signals.sem = 0
    /\ "coverage" \in Failed =>
         (split_claims(scorer.response) # <<>> /\ scorer.signals.cov.n = 0)
    /\ "numeric" \in scorer.computed
    /\ scorer.signals.num.d = Max(Cardinality(extract_numbers(scorer.response)), 1)
    /\ extract_numbers(scorer.response) # {} =>
         scorer.signals.num.n =
             Cardinality({x \in extract_numbers(scorer.response) :
                            \E i \in 1..Len(scorer.context_chunks) :
                               x \in extract_numbers(scorer.context_chunks[i])})
    /\ 0 <= Value /\ Value <= ScoreScale
    /\ "detail" \in Failed =>
         /\ Len(scorer.report.claims) = Len(split_claims(scorer.response))
         /\ \A i \in 1..Len(scorer.report.claims) : ~scorer.report.claims[i].supported

\* C16 (as stated): a failing embedding call degrades the signals and never
\* raises, and the attempt so scored is a failed attempt of the orchestrator
C16_FailureIsFailedAttempt ==
    (CallReturned /\ Failed # {}) =>
        /\ FailureDegrades
        /\ (ScoreReturned /\ PipelineScorer) =>
              \A threshold \in {DefaultThreshold, TestThreshold} :
                  ~Accepts(scorer.result, threshold)

\* C16 (amended): a failing embedding call degrades the signals and never
\* raises; with the orchestrator's scorer the value is then at most 0.60, so
\* the attempt fails for every threshold above 0.60, the default 0.70 included
C16_FailureDegradesBelowDefaultGate ==
    (CallReturned /\ Failed # {}) =>
        /\ FailureDegrades
        /\ (ScoreReturned /\ PipelineScorer) =>
              /\ scorer.result <= DegradedCeiling
              /\ \A threshold \in (DegradedCeiling + 1)..ScoreScale :
                    ~Accepts(scorer.result, threshold)
              /\ ~Accepts(scorer.result, DefaultThreshold)

\* both encode calls of score fail on a response whose number is in the context
C16_Witness ==
    /\ ScoreReturned
    /\ PipelineScorer
    /\ Failed = {"semantic", "coverage"}
    /\ scorer.signals.num.n > 0
    /\ scorer.result > 0

\* The sum of the weights the constructor was given
ArgTotal == Total(WeightsOf(scorer.args.weights))
SumOff ==
    \/ ArgTotal < WeightScale - WeightTolerance
    \/ ArgTotal > WeightScale + WeightTolerance

\* C17: weights whose sum is off 1.0 by more than 1e-6 make the constructor
\* raise before the model is loaded, and no call is served by such a scorer;
\* weights within 1e-6 are accepted
C17_BadWeightsFailConstruction ==
    scorer.pc # "new" =>
        /\ SumOff <=> scorer.pc = "raised"
        /\ scorer.pc = "raised" => (~scorer.model_loaded /\ scorer.fn = "none")
        /\ scorer.pc # "raised" => scorer.model_loaded
        /\ scorer.fn # "none" => ~SumOff

\* the constructor raised on a sum 2e-6 below 1.0
C17_Witness ==
    /\ scorer.pc = "raised"
    /\ ArgTotal = WeightScale - 2 * WeightTolerance

\* A field of the report, 1e-4, as hundreds and units
Hi(x) == x \div 100
Lo(x) == x % 100

\* w_semantic*semantic + w_coverage*coverage + w_numeric*numeric - penalty on
\* the fields of the report, in 1e-10, as FieldSumHi * 100 + FieldSumLo
FieldSumHi ==
      scorer.weights.semantic * Hi(scorer.report.semantic)
    + scorer.weights.coverage * Hi(scorer.report.coverage)
    + scorer.weights.numeric * Hi(scorer.report.numeric)
    - WeightScale * Hi(scorer.report.penalty)
FieldSumLo ==
      scorer.weights.semantic * Lo(scorer.report.semantic)
    + scorer.weights.coverage * Lo(scorer.report.coverage)
    + scorer.weights.numeric * Lo(scorer.report.numeric)
    - WeightScale * Lo(scorer.report.penalty)
FieldSumCarried == FieldSumHi + (FieldSumLo \div 100)
FieldSumRest == FieldSumLo % 100

\* overall == clamp(weighted sum of the fields - penalty, 0, 1)
OverallIsClampOfFields ==
    IF FieldSumCarried < 0 \/ (FieldSumCarried = 0 /\ FieldSumRest = 0)
    THEN scorer.report.overall = 0
    ELSE IF FieldSumCarried >= WeightScale * 100
    THEN scorer.report.overall = ScoreScale
    ELSE /\ FieldSumCarried = scorer.report.overall * (WeightScale \div 100)
         /\ FieldSumRest = 0

FieldsInRange ==
    /\ \A x \in {scorer.report.semantic, scorer.report.coverage, scorer.report.numeric} :
         0 <= x /\ x <= ScoreScale
    /\ 0 <= scorer.report.penalty
    /\ scorer.report.penalty <= scorer.hedge_max_penalty

\* x is a 1e-4 value nearest to num / den
Nearest(x, num, den) == 2 * Abs(x * den - ScoreScale * num) <= den

AlphaOccurrences ==
    UNION {{<<i, j>> : j \in {k \in 1..Len(scorer.response[i].words) :
                                AlphaRuns(scorer.response[i].words[k]) # {}}} :
           i \in 1..Len(scorer.response)}
AlphaWords ==
    {Lower(scorer.response[p[1]].words[p[2]]) : p \in AlphaOccurrences}

\* The recorded penalty is min(cap, (hits / words) * 0.25 * (1 - sem)), to
\* four decimals
PenaltyIs(hits, words) ==
    LET num == hits * HedgeFactor * (SimScale - scorer.signals.sem)
        den == Max(words, 1)
    IN  IF num >= scorer.hedge_max_penalty * den
        THEN scorer.signals.penalty = scorer.hedge_max_penalty
        ELSE 2 * Abs(scorer.signals.penalty * den - num) <= den

\* C19 (as stated): the penalty is 0 when the semantic similarity is >= 0.55,
\* else min(cap, hedge_ratio * 0.25 * (1 - sem)) with hedge_ratio counting
\* every occurrence of a word of the response
C19_PenaltyCountsOccurrences ==
    (CallReturned /\ ~EarlyInputs) =>
        IF scorer.signals.sem >= HedgeSemThreshold
        THEN scorer.signals.penalty = 0
        ELSE PenaltyIs(Cardinality({p \in AlphaOccurrences :
                          Lower(scorer.response[p[1]].words[p[2]]) \in HEDGE_WORDS}),
                       Cardinality(AlphaOccurrences))

\* C19 (amended): the penalty is 0 when the semantic similarity is >= 0.55,
\* else min(cap, hedge_ratio * 0.25 * (1 - sem)) rounded to four decimals,
\* with hedge_ratio counting the distinct alphabetic words of the response
C19_PenaltyCountsDistinctWords ==
    (CallReturned /\ ~EarlyInputs) =>
        IF scorer.signals.sem >= HedgeSemThreshold
        THEN scorer.signals.penalty = 0
        ELSE PenaltyIs(Cardinality(AlphaWords \cap HEDGE_WORDS), Cardinality(AlphaWords))

\* weak positive similarity, a hedge word and a repeated word, penalty below
\* the cap
C19_Witness ==
    /\ CallReturned
    /\ 0 < scorer.signals.sem /\ scorer.signals.sem < HedgeSemThreshold
    /\ Cardinality(AlphaWords) < Cardinality(AlphaOccurrences)
    /\ 0 < scorer.signals.penalty
    /\ scorer.signals.penalty < scorer.hedge_max_penalty

\* The claims of the response and those a chunk or the context supports
ClaimIdx ==
    {i \in 1..Len(scorer.response) :
        scorer.response[i].end # "?" /\ Len(scorer.response[i].words) >= 4}
SupportedIdx ==
    {i \in ClaimIdx :
        \/ \E k \in 1..Len(scorer.context_chunks) :
              Sim(scorer.emb.model, <<scorer.response[i]>>, scorer.context_chunks[k])
                 >= CLAIM_SEM_THRESHOLD
        \/ SimScale * Cardinality({t \in tokenise(<<scorer.response[i]>>) :
                 \E k \in 1..Len(scorer.context_chunks) :
                    t \in tokenise(scorer.context_chunks[k])})
             >= CLAIM_LEX_THRESHOLD * Cardinality(tokenise(<<scorer.response[i]>>))}

\* The recorded coverage signal is n / d
CoverageIs(n, d) == scorer.signals.cov.n * d = n * scorer.signals.cov.d

\* C20 (as stated): coverage is 1.0 without claims, else the fraction of
\* claims with best chunk similarity >= 0.55 or lexical overlap >= 0.35
C20_CoverageIsSupportedFraction ==
    (CallReturned /\ ~EarlyInputs) =>
        IF ClaimIdx = {} THEN CoverageIs(1, 1)
        ELSE CoverageIs(Cardinality(SupportedIdx), Cardinality(ClaimIdx))

\* C20 (amended): coverage is 1.0 without claims; 0.0 when encoding the claims
\* or the chunks fails; else the fraction of claims with best chunk similarity
\* >= 0.55 or lexical overlap >= 0.35
C20_CoverageIsSupportedFractionUnlessFailed ==
    (CallReturned /\ ~EarlyInputs) =>
        IF ClaimIdx = {} THEN CoverageIs(1, 1)
        ELSE IF "coverage" \in Failed THEN CoverageIs(0, 1)
        ELSE CoverageIs(Cardinality(SupportedIdx), Cardinality(ClaimIdx))

\* two claims, one of them supported by its words only, beside a question or
\* a fragment that is no claim
C20_Witness ==
    /\ CallReturned
    /\ Failed = {}
    /\ scorer.emb.model = "near"
    /\ Cardinality(ClaimIdx) >= 2
    /\ Cardinality(SupportedIdx) = 1
    /\ scorer.signals.cov.n = 1

\* The normalized numbers of the response and of the concatenated context
ResponseNumbers == extract_numbers(scorer.response)
ContextNumbers == extract_numbers(Combined(scorer.context_chunks))

\* The recorded numeric signal is n / d
NumericIs(n, d) == scorer.signals.num.n * d = n * scorer.signals.num.d

\* C21: the numeric signal is 1.0 for a response without a number, 1.0 when
\* every normalized number of the response is among those of the context,
\* else the fraction of the distinct response numbers found in the context
C21_NumericIsMatchedFraction ==
    (CallReturned /\ ~EarlyInputs) =>
        /\ ResponseNumbers = {} => NumericIs(1, 1)
        /\ ResponseNumbers \subseteq ContextNumbers => NumericIs(1, 1)
        /\ ~(ResponseNumbers \subseteq ContextNumbers) =>
              /\ NumericIs(Cardinality({x \in ResponseNumbers : x \in ContextNumbers}),
                           Cardinality(ResponseNumbers))
              /\ scorer.signals.num.n < scorer.signals.num.d

\* "1,000" of the response matches "1000" of the context, two of the four
\* numbers of the response are in the context
C21_Witness ==
    /\ CallReturned
    /\ "1,000" \in WordsOf(scorer.response)
    /\ "1000" \in ResponseNumbers \cap ContextNumbers
    /\ Cardinality(ResponseNumbers) = 4
    /\ scorer.signals.num.n = 2

\* ---------------------------------------------------------------------------
\* Two score calls of one default-weight scorer against the same context
\* ---------------------------------------------------------------------------

MaxPairSentences == 1

\* A claim whose number is in the context, a claim with numbers that are not,
\* and two fully hedged claims that differ in their number only
PairSentences ==
    { Sentence(<<"it", "has", "1,000", "steps">>, "."),
      Sentence(<<"costs", "7", "or", "42", "or", "99">>, "."),
      Sentence(<<"maybe", "perhaps", "possibly", "42">>, "."),
      Sentence(<<"maybe", "perhaps", "possibly", "99">>, ".") }

PairResponses == UNION {[1..k -> PairSentences] : k \in 0..MaxPairSentences}

\* hedge_max_penalty=0.25, the most hedge_ratio * 0.25 can be
LargeHedgeCap == 2500

PairModels == {"opposed", "edge", "lexical"}
PairFailSets == {{}, {"semantic", "coverage"}}

NoCall == [response |-> <<>>, signals |-> NoSignals, result |-> 0]

\* scorer.score(response, context_chunks) of the scorer of the pair
PairScore(resp, fails) ==
    LET emb == [model |-> pair.model, fails |-> fails]
        sig == Signals(resp, pair.context_chunks, emb, pair.hedge_max_penalty)
    IN  IF EarlyReturn(resp, pair.context_chunks)
        THEN [response |-> resp, signals |-> NoSignals, result |-> 0]
        ELSE [response |-> resp, signals |-> sig,
              result |-> Final(DEFAULT_WEIGHTS, sig)]

PairInit ==
    /\ NoRun
    /\ max_context_chars = DefaultContextChars
    /\ HarnessIdleExcept({"pair"})
    /\ \E cap \in {DefaultHedgeCap, LargeHedgeCap}, cc \in ContextChunkLists,
          m \in PairModels :
         pair = [pc |-> "first", hedge_max_penalty |-> cap, context_chunks |-> cc,
                 model |-> m, first |-> NoCall, second |-> NoCall]

ScoreFirst ==
    /\ pair.pc = "first"
    /\ \E resp \in PairResponses, fails \in PairFailSets :
         pair' = [pair EXCEPT !.pc = "second", !.first = PairScore(resp, fails)]
    /\ UNCHANGED <<config, sink, pc, locals, history>>
    /\ HarnessUnchangedExcept({"pair"})

ScoreSecond ==
    /\ pair.pc = "second"
    /\ \E resp \in PairResponses, fails \in PairFailSets :
         pair' = [pair EXCEPT !.pc = "done", !.second = PairScore(resp, fails)]
    /\ UNCHANGED <<config, sink, pc, locals, history>>
    /\ HarnessUnchangedExcept({"pair"})

PairNext == ScoreFirst \/ ScoreSecond

SpecPair == PairInit /\ [][PairNext]_vars

PairContextNumbers == extract_numbers(Combined(pair.context_chunks))

\* Both calls computed their signals; semantic, coverage and penalty are
\* equal; every number of the first response is in the context, a number of
\* the second is in no chunk
PairPremise ==
    /\ pair.pc = "done"
    /\ pair.context_chunks # <<>>
    /\ pair.first.response # <<>> /\ pair.second.response # <<>>
    /\ pair.first.signals.sem = pair.second.signals.sem
    /\ pair.first.signals.cov.n * pair.second.signals.cov.d
         = pair.second.signals.cov.n * pair.first.signals.cov.d
    /\ pair.first.signals.penalty = pair.second.signals.penalty
    /\ extract_numbers(pair.first.response) \subseteq PairContextNumbers
    /\ \E x \in extract_numbers(pair.second.response) : x \notin PairContextNumbers

\* C22 (as stated): with the default weights, equal semantic and coverage
\* signals and equal penalty, the response whose numbers are all in the
\* context scores strictly higher than the one with a number in no chunk
C22_UnmatchedNumberScoresLower ==
    PairPremise => pair.first.result > pair.second.result

\* C22 (amended): the same, for a hedge cap of at most the default 0.10
C22_UnmatchedNumberScoresLowerUnderDefaultCap ==
    (PairPremise /\ pair.hedge_max_penalty <= DefaultHedgeCap) =>
        pair.first.result > pair.second.result

\* both responses have numbers and the second still scores above 0.0
C22_Witness ==
    /\ PairPremise
    /\ pair.hedge_max_penalty = DefaultHedgeCap
    /\ extract_numbers(pair.first.response) # {}
    /\ pair.second.signals.num.n > 0
    /\ pair.second.result > 0
    /\ pair.first.result > pair.second.result
\* ------------------------------------------------ concurrent calls of run
\* Callers of run on one shared instance.  Each call has the locals of run
\* (lines 179-202) of its own; the instance's fields and the sink are the
\* only state the calls share.
MaxCallers == 2
Callers == 1..MaxCallers

\* What the collaborators answer to a caller: the store raises, has one
\* document or none; the values the scorer signals
CallerStores ==
    {[kind |-> "raises", documents |-> <<>>, distances |-> <<>>,
      hasMetas |-> FALSE, metadatas |-> <<>>],
     [kind |-> "ok", documents |-> <<>>, distances |-> <<>>,
      hasMetas |-> FALSE, metadatas |-> <<>>],
     [kind |-> "ok", documents |-> <<"d1">>, distances |-> <<1>>,
      hasMetas |-> FALSE, metadatas |-> <<>>]}
\* the completions a caller gets differ from those of its neighbours
CallerOutputs(i) == {IF i % 2 = 1 THEN "a1" ELSE "a22"}
CallerSignals == {0, 7000}

\* The frame of a call before its first statement
NewCall ==
    [pc |-> "idle", request_id |-> 0, query |-> "", chunks |-> <<>>, audit |-> <<>>,
     user_prompt |-> UserPrompt(<<>>, ""), chunk_texts |-> <<>>, raw_answer |-> "",
     faithfulness |-> 0, passed |-> FALSE, retries_used |-> 0, attempt |-> 0,
     response |-> NoResponse]

\* What the collaborators have answered to a call so far
NoAnswers == [store |-> <<>>, outs |-> <<>>, sigs |-> <<>>]

\* The fields of the instance as a record
Config ==
    [max_retries |-> max_retries, faithfulness_threshold |-> faithfulness_threshold,
     max_context_chars |-> max_context_chars, fallback_message |-> fallback_message,
     audit_log_path |-> audit_log_path]

\* an audit list kept on the instance: every call appends to the list of
\* the first caller
AuditListOnInstance(i, calls) == calls[1].audit

\* audit : list[dict] = [] is a local of run: the list a call appends to
AuditList(i, calls) == calls[i].audit

\* No run through the variables of the single call
NoSingleRun ==
    /\ pc = "idle"
    /\ request_id = 0
    /\ query = ""
    /\ chunks = <<>>
    /\ audit = <<>>
    /\ user_prompt = UserPrompt(<<>>, "")
    /\ chunk_texts = <<>>
    /\ raw_answer = ""
    /\ faithfulness = 0
    /\ passed = FALSE
    /\ retries_used = 0
    /\ attempt = 0
    /\ response = NoResponse
    /\ storeOutcome = [kind |-> "none", caught |-> FALSE]
    /\ llmCalls = 0
    /\ prompts = <<>>
    /\ outputs = <<>>
    /\ scoreCalls = 0
    /\ scores = <<>>
    /\ raisedAt = "none"
    /\ appendOutcome = "none"
    /\ sinkAtStart = <<>>

ConcurrentInit ==
    /\ max_retries \in 0..MaxRetriesBound
    /\ faithfulness_threshold = DefaultThreshold
    /\ max_context_chars = DefaultContextChars
    /\ fallback_message = FallbackOf(NoneValue)
    /\ audit_log_path \in AuditPathParams
    /\ sink = <<>>
    /\ NoSingleRun
    /\ HarnessIdleExcept({"procs"})
    /\ procs = [pc |-> "serving", constructed |-> Config,
                call |-> [i \in Callers |-> NewCall],
                answers |-> [i \in Callers |-> NoAnswers]]

\* run, lines 179-181, in caller i
CallStart(i) ==
    /\ procs.call[i].pc = "idle"
    /\ procs' = [procs EXCEPT !.call[i] =
                    [@ EXCEPT !.pc = "retrieve", !.request_id = i,
                              !.query = "q1", !.audit = <<>>]]
    /\ UNCHANGED <<config, sink, pc, locals, history>>
    /\ HarnessUnchangedExcept({"procs"})

\* run, lines 184-202, in caller i
CallRetrieve(i) ==
    /\ procs.call[i].pc = "retrieve"
    /\ \E result \in CallerStores :
         LET c   == procs.call[i]
             r   == Retrieve(result)
             log == Append(AuditList(i, procs.call),
                           Log("RETRIEVE", <<Len(r.chunks)>>))
             end == Append(log, Log("FALLBACK", <<"No chunks retrieved">>))
         IN  procs' =
               [procs EXCEPT
                  !.answers[i].store = <<result>>,
                  !.call[i] =
                    IF NoChunks(r.chunks)
                    THEN [c EXCEPT !.chunks = r.chunks, !.audit = end,
                                   !.response = BuildResponse(c.request_id, c.query,
                                        fallback_message, fallback_message, r.chunks,
                                        0, FALSE, 0, end),
                                   !.pc = "returned"]
                    ELSE [c EXCEPT !.chunks = r.chunks, !.audit = log,
                                   !.user_prompt = UserPrompt(
                                        FormatContext(r.chunks, max_context_chars),
                                        c.query),
                                   !.chunk_texts = [k \in 1..Len(r.chunks) |->
                                                      r.chunks[k].text],
                                   !.pc = "generate"]]
    /\ UNCHANGED <<config, sink, pc, locals, history>>
    /\ HarnessUnchangedExcept({"procs"})

\* run, lines 206-207, in caller i
CallGenerate(i) ==
    /\ procs.call[i].pc = "generate"
    /\ \E o \in CallerOutputs(i) :
         LET c == procs.call[i]
         IN  procs' =
               [procs EXCEPT
                  !.answers[i].outs = Append(@, o),
                  !.call[i] =
                    [c EXCEPT !.raw_answer = o,
                              !.audit = Append(AuditList(i, procs.call),
                                   Log("GENERATE", <<c.attempt + 1, TextLen(o)>>)),
                              !.pc = "score"]]
    /\ UNCHANGED <<config, sink, pc, locals, history>>
    /\ HarnessUnchangedExcept({"procs"})

\* run, line 206, in caller i: the generation function raises
CallGenerateRaises(i) ==
    /\ procs.call[i].pc = "generate"
    /\ procs' = [procs EXCEPT !.call[i].pc = "raised"]
    /\ UNCHANGED <<config, sink, pc, locals, history>>
    /\ HarnessUnchangedExcept({"procs"})

\* run, lines 210-233, in caller i
CallScore(i) ==
    /\ procs.call[i].pc = "score"
    /\ \E signalled \in CallerSignals :
         LET c     == procs.call[i]
             faith == score(c.raw_answer, c.chunk_texts, signalled)
             log1  == Append(AuditList(i, procs.call),
                             Log("FAITHFULNESS", <<faith, faithfulness_threshold>>))
             log2  == Append(log1, Log("RETRY", <<faith, faithfulness_threshold>>))
             log3  == Append(log2, Log("FALLBACK", <<"all retries exhausted">>))
         IN  procs' =
               [procs EXCEPT
                  !.answers[i].sigs = Append(@, signalled),
                  !.call[i] =
                    IF Accepts(faith, faithfulness_threshold)
                    THEN [c EXCEPT !.faithfulness = faith, !.passed = TRUE,
                                   !.audit = log1,
                                   !.response = BuildResponse(c.request_id, c.query,
                                        FinalAnswer(TRUE, c.raw_answer, fallback_message),
                                        c.raw_answer, c.chunks, faith, TRUE,
                                        c.retries_used, log1),
                                   !.pc = "persist"]
                    ELSE IF LoopContinues(c.attempt, max_retries)
                    THEN [c EXCEPT !.faithfulness = faith, !.passed = FALSE,
                                   !.retries_used = RetriesAfterFailure(c.attempt),
                                   !.attempt = c.attempt + 1,
                                   !.audit = log2,
                                   !.pc = "generate"]
                    ELSE [c EXCEPT !.faithfulness = faith, !.passed = FALSE,
                                   !.retries_used = RetriesAfterFailure(c.attempt),
                                   !.audit = log3,
                                   !.response = BuildResponse(c.request_id, c.query,
                                        FinalAnswer(FALSE, c.raw_answer, fallback_message),
                                        c.raw_answer, c.chunks, faith, FALSE,
                                        RetriesAfterFailure(c.attempt), log3),
                                   !.pc = "persist"]]
    /\ UNCHANGED <<config, sink, pc, locals, history>>
    /\ HarnessUnchangedExcept({"procs"})

\* _persist_audit in caller i: no path, the appended line, the failed append
CallPersist(i) ==
    /\ procs.call[i].pc = "persist"
    /\ \/ /\ ~Truthy(audit_log_path)
          /\ sink' = sink
       \/ /\ Truthy(audit_log_path)
          /\ sink' = Append(sink, AuditRecord(procs.call[i].response))
       \/ /\ Truthy(audit_log_path)
          /\ sink' = sink
    /\ procs' = [procs EXCEPT !.call[i].pc = "returned"]
    /\ UNCHANGED <<config, pc, locals, history>>
    /\ HarnessUnchangedExcept({"procs"})

ConcurrentNext ==
    \E i \in Callers :
        \/ CallStart(i)
        \/ CallRetrieve(i)
        \/ CallGenerate(i)
        \/ CallGenerateRaises(i)
        \/ CallScore(i)
        \/ CallPersist(i)

SpecConcurrent == ConcurrentInit /\ [][ConcurrentNext]_vars

\* The loop of run (lines 204-224) and the response (226-233) of a call
\* that runs alone, from attempt att on, with the answers of the
\* collaborators given
RECURSIVE AloneLoop(_, _, _, _, _, _, _, _)
AloneLoop(cfg, rid, q, cs, outs, sigs, att, log) ==
    LET o     == outs[att + 1]
        texts == [k \in 1..Len(cs) |-> cs[k].text]
        faith == score(o, texts, sigs[att + 1])
        log1  == log \o <<Log("GENERATE", <<att + 1, TextLen(o)>>),
                          Log("FAITHFULNESS", <<faith, cfg.faithfulness_threshold>>)>>
        log2  == Append(log1, Log("RETRY", <<faith, cfg.faithfulness_threshold>>))
        log3  == Append(log2, Log("FALLBACK", <<"all retries exhausted">>))
    IN  IF Accepts(faith, cfg.faithfulness_threshold)
        THEN BuildResponse(rid, q, o, o, cs, faith, TRUE, att, log1)
        ELSE IF LoopContinues(att, cfg.max_retries)
        THEN AloneLoop(cfg, rid, q, cs, outs, sigs, att + 1, log2)
        ELSE BuildResponse(rid, q, cfg.fallback_message, o, cs, faith, FALSE,
                           att + 1, log3)

\* run (lines 170-235) of a call that runs alone with these answers
RunAlone(cfg, rid, q, answers) ==
    LET r   == Retrieve(answers.store[1])
        log == <<Log("RETRIEVE", <<Len(r.chunks)>>)>>
    IN  IF NoChunks(r.chunks)
        THEN BuildResponse(rid, q, cfg.fallback_message, cfg.fallback_message,
                           r.chunks, 0, FALSE, 0,
                           Append(log, Log("FALLBACK", <<"No chunks retrieved">>)))
        ELSE AloneLoop(cfg, rid, q, r.chunks, answers.outs, answers.sigs, 0, log)

\* caller i has its response
CallReturnedTo(i) == procs.call[i].pc \in {"persist", "returned"}

\* C23: whatever the interleaving of the calls, each call returns the
\* result it would return alone with the same answers of the collaborators
\* (audit log, retries_used, score and answer included), and the fields of
\* the instance are those the constructor set.
C23_ConcurrentRunsAreIsolated ==
    /\ Config = procs.constructed
    /\ \A i \in Callers :
         CallReturnedTo(i) =>
            procs.call[i].response =
                RunAlone(procs.constructed, i, procs.call[i].query, procs.answers[i])

\* The second caller got its result after a failed attempt, and all of its
\* attempts were made while the first caller was inside its own loop.
C23_Witness ==
    /\ procs.call[1].pc = "score"
    /\ procs.call[1].attempt = 1
    /\ procs.call[2].pc = "returned"
    /\ procs.call[2].response.retries_used = 1
    /\ procs.call[2].response.passed_faithfulness
    /\ procs.call[2].response.raw_answer # procs.call[1].raw_answer
\* ------------------------------------------------------ evaluation metrics
\* Latencies are in thousandths of a millisecond, token metrics in 1e-4.
LatScale == 1000
LatStep == 10

\* Lengths of the latency lists and of the texts (in words)
MaxLatencies == 3
MaxWords == 2

\* Latencies: whole milliseconds, one with three decimals, one halfway
\* between two hundredths
LatencyValues == {1000, 1234, 1235, 3000}

\* [1.0, 2.0, ..., 100.0]
OneToHundred == [k \in 1..100 |-> k * LatScale]

LatencyLists == SeqsUpTo(LatencyValues, MaxLatencies) \cup {OneToHundred}

\* Words of a text: a word, the word capitalised, two words joined by a
\* hyphen, punctuation
MetricWords == {"a", "A", "b-c", "!"}
MetricTexts == SeqsUpTo(MetricWords, MaxWords)

\* re.findall(r"[a-z0-9]+", word.lower())
WordTokens(w) ==
    CASE w = "a"   -> <<"a">>
      [] w = "A"   -> <<"a">>
      [] w = "b-c" -> <<"b", "c">>
      [] w = "!"   -> <<>>

\* metrics._tokenise: the list of the tokens of a text
RECURSIVE metrics_tokenise(_)
metrics_tokenise(text) ==
    IF text = <<>> THEN <<>>
    ELSE WordTokens(Head(text)) \o metrics_tokenise(Tail(text))

\* set(tokens)
TokenSet(tokens) == {tokens[i] : i \in 1..Len(tokens)}

\* sum(1 for t in tokens if t in among)
Hits(tokens, among) == Cardinality({i \in 1..Len(tokens) : tokens[i] \in among})

\* token_precision
token_precision(prediction, reference) ==
    LET pred_tokens == metrics_tokenise(prediction)
        ref_tokens  == TokenSet(metrics_tokenise(reference))
    IN  IF pred_tokens = <<>> THEN 0
        ELSE Round(ScoreScale * Hits(pred_tokens, ref_tokens), Len(pred_tokens))

\* token_recall
token_recall(prediction, reference) ==
    LET pred_set   == TokenSet(metrics_tokenise(prediction))
        ref_tokens == metrics_tokenise(reference)
    IN  IF ref_tokens = <<>> THEN 0
        ELSE Round(ScoreScale * Hits(ref_tokens, pred_set), Len(ref_tokens))

\* token_f1 as the arithmetic mean of precision and recall
TokenF1Arithmetic(prediction, reference) ==
    LET p == token_precision(prediction, reference)
        r == token_recall(prediction, reference)
    IN  IF p + r = 0 THEN 0
        ELSE Round(p + r, 2)

\* token_f1
token_f1(prediction, reference) ==
    LET p == token_precision(prediction, reference)
        r == token_recall(prediction, reference)
    IN  IF p + r = 0 THEN 0
        ELSE Round(2 * p * r, p + r)

\* sorted(latencies_ms): the values in ascending order, each as often as
\* it occurs in the list
Sorted(l) ==
    [i \in 1..Len(l) |->
        CHOOSE v \in TokenSet(l) :
            /\ Cardinality({j \in 1..Len(l) : l[j] < v}) < i
            /\ i <= Cardinality({j \in 1..Len(l) : l[j] <= v})]

RECURSIVE SumOf(_)
SumOf(l) == IF l = <<>> THEN 0 ELSE Head(l) + SumOf(Tail(l))

Percentiles == {50, 90, 95, 99}

\* idx computed on n instead of n - 1
PercentileIndexOfN(pct, n) == Min((pct * n) \div 100, n - 1)

\* idx = min(int(pct / 100.0 * (n-1)), n - 1), an index from 0
PercentileIndex(pct, n) == Min((pct * (n - 1)) \div 100, n - 1)

\* round(x, 2) of x = num / den thousandths: the nearest hundredth; halfway
\* between two hundredths the binary value of the float decides (up)
Round2(num, den, up) ==
    LET unit == LatStep * den
        q    == num \div unit
        r    == num % unit
    IN  IF 2 * r < unit THEN q * LatStep
        ELSE IF 2 * r > unit THEN (q + 1) * LatStep
        ELSE IF up THEN (q + 1) * LatStep ELSE q * LatStep

\* the caller's list after the call, had the list been sorted in place
CallerListSortedInPlace(latencies_ms) == Sorted(latencies_ms)

\* sorted() builds a new list: the caller's list after the call
CallerList(latencies_ms) == latencies_ms

\* latency_percentiles
latency_percentiles(latencies_ms, up, upMean) ==
    IF latencies_ms = <<>>
    THEN [p50 |-> 0, p90 |-> 0, p95 |-> 0, p99 |-> 0, mean |-> 0]
    ELSE LET sorted_lat == Sorted(latencies_ms)
             n          == Len(sorted_lat)
             percentile(pct) == Round2(sorted_lat[PercentileIndex(pct, n) + 1], 1, up)
         IN  [p50  |-> percentile(50),
              p90  |-> percentile(90),
              p95  |-> percentile(95),
              p99  |-> percentile(99),
              mean |-> Round2(SumOf(sorted_lat), n, upMean)]

MetricsInit ==
    /\ NoRun
    /\ max_context_chars = DefaultContextChars
    /\ HarnessIdleExcept({"metrics"})
    /\ metrics = [pc |-> "ready"]

\* a call of latency_percentiles
LatencyPercentilesCall ==
    /\ metrics.pc = "ready"
    /\ \E l \in LatencyLists, up \in BOOLEAN, upMean \in BOOLEAN :
         metrics' = [pc |-> "returned", fn |-> "latency_percentiles",
                     latencies_ms |-> l, after |-> CallerList(l),
                     result |-> latency_percentiles(l, up, upMean)]
    /\ UNCHANGED <<config, sink, pc, locals, history>>
    /\ HarnessUnchangedExcept({"metrics"})

\* a call of token_precision
TokenPrecisionCall ==
    /\ metrics.pc = "ready"
    /\ \E p \in MetricTexts, r \in MetricTexts :
         metrics' = [pc |-> "returned", fn |-> "token_precision",
                     prediction |-> p, reference |-> r,
                     result |-> token_precision(p, r)]
    /\ UNCHANGED <<config, sink, pc, locals, history>>
    /\ HarnessUnchangedExcept({"metrics"})

\* a call of token_recall
TokenRecallCall ==
    /\ metrics.pc = "ready"
    /\ \E p \in MetricTexts, r \in MetricTexts :
         metrics' = [pc |-> "returned", fn |-> "token_recall",
                     prediction |-> p, reference |-> r,
                     result |-> token_recall(p, r)]
    /\ UNCHANGED <<config, sink, pc, locals, history>>
    /\ HarnessUnchangedExcept({"metrics"})

\* a call of token_f1
TokenF1Call ==
    /\ metrics.pc = "ready"
    /\ \E p \in MetricTexts, r \in MetricTexts :
         metrics' = [pc |-> "returned", fn |-> "token_f1",
                     prediction |-> p, reference |-> r,
                     result |-> token_f1(p, r)]
    /\ UNCHANGED <<config, sink, pc, locals, history>>
    /\ HarnessUnchangedExcept({"metrics"})

MetricsNext ==
    \/ LatencyPercentilesCall
    \/ TokenPrecisionCall
    \/ TokenRecallCall
    \/ TokenF1Call

SpecMetrics == MetricsInit /\ [][MetricsNext]_vars

\* the function fn has returned
MetricReturned(fn) == metrics.pc = "returned" /\ metrics.fn = fn

\* the element a percentile of the call stands for
ElementAt(pct) ==
    Sorted(metrics.latencies_ms)[PercentileIndex(pct, Len(metrics.latencies_ms)) + 1]

ResultAt(pct) ==
    CASE pct = 50 -> metrics.result.p50
      [] pct = 90 -> metrics.result.p90
      [] pct = 95 -> metrics.result.p95
      [] pct = 99 -> metrics.result.p99

\* h is a hundredth nearest to num / den thousandths
NearestHundredth(h, num, den) ==
    /\ h % LatStep = 0
    /\ 2 * Abs(h * den - num) <= LatStep * den

\* empty input gives zeros, the caller's list is as it was, and 1..100 gives
\* the values of the test
LatencyEdgeCases ==
    /\ metrics.after = metrics.latencies_ms
    /\ metrics.latencies_ms = <<>> =>
          metrics.result = [p50 |-> 0, p90 |-> 0, p95 |-> 0, p99 |-> 0, mean |-> 0]
    /\ metrics.latencies_ms = OneToHundred =>
          /\ metrics.result.p50 = 50 * LatScale
          /\ metrics.result.p90 = 90 * LatScale
          /\ metrics.result.p99 = 99 * LatScale
          /\ 2 * metrics.result.mean = 101 * LatScale

\* C24 (as stated): each percentile is the element at index
\* min(floor(pct/100 * (n-1)), n-1) of the sorted values and mean is their
\* mean; empty input gives zeros, the caller's list is unmodified, 1..100
\* gives p50=50, p90=90, p99=99, mean=50.5
C24_PercentilesAreElements ==
    MetricReturned("latency_percentiles") =>
        /\ LatencyEdgeCases
        /\ metrics.latencies_ms # <<>> =>
              /\ \A pct \in Percentiles : ResultAt(pct) = ElementAt(pct)
              /\ metrics.result.mean * Len(metrics.latencies_ms)
                    = SumOf(metrics.latencies_ms)

\* C24 (amended): each percentile is the element at that index rounded to
\* two decimals and mean is the mean rounded to two decimals; the rest as
\* stated
C24_PercentilesAreRoundedElements ==
    MetricReturned("latency_percentiles") =>
        /\ LatencyEdgeCases
        /\ metrics.latencies_ms # <<>> =>
              /\ \A pct \in Percentiles : NearestHundredth(ResultAt(pct), ElementAt(pct), 1)
              /\ NearestHundredth(metrics.result.mean, SumOf(metrics.latencies_ms),
                                  Len(metrics.latencies_ms))

\* The percentiles of an unsorted list with an element of three decimals:
\* p50 is the middle element rounded, the caller's list is still unsorted
C24_Witness ==
    /\ MetricReturned("latency_percentiles")
    /\ metrics.latencies_ms = <<3000, 1234, 1000>>
    /\ metrics.after = <<3000, 1234, 1000>>
    /\ metrics.result.p50 = 1230
    /\ metrics.result.p50 # ElementAt(50)

\* precision and recall as token_f1 sees them
PairPrecision == token_precision(metrics.prediction, metrics.reference)
PairRecall == token_recall(metrics.prediction, metrics.reference)

\* no tokens, no score
ZeroCases ==
    /\ (MetricReturned("token_precision") /\ metrics_tokenise(metrics.prediction) = <<>>)
          => metrics.result = 0
    /\ (MetricReturned("token_recall") /\ metrics_tokenise(metrics.reference) = <<>>)
          => metrics.result = 0
    /\ (MetricReturned("token_f1") /\ PairPrecision + PairRecall = 0)
          => metrics.result = 0

\* C25 (as stated): precision is 0 without prediction tokens, recall is 0
\* without reference tokens, f1 is 0 when p + r is 0 and else equals
\* 2*p*r/(p+r) for the precision p and the recall r of the same pair
C25_F1IsHarmonicMean ==
    /\ ZeroCases
    /\ (MetricReturned("token_f1") /\ PairPrecision + PairRecall # 0)
          => metrics.result * (PairPrecision + PairRecall)
                = 2 * PairPrecision * PairRecall

\* C25 (amended): as stated, with f1 equal to 2*p*r/(p+r) rounded to four
\* decimals, p and r being the rounded values the two functions return
C25_F1IsRoundedHarmonicMean ==
    /\ ZeroCases
    /\ (MetricReturned("token_f1") /\ PairPrecision + PairRecall # 0)
          => 2 * Abs(metrics.result * (PairPrecision + PairRecall)
                        - 2 * PairPrecision * PairRecall)
                <= PairPrecision + PairRecall

\* f1 of a prediction of three tokens of which one is the reference: 0.5,
\* which is not the harmonic mean of 0.3333 and 1.0
C25_Witness ==
    /\ MetricReturned("token_f1")
    /\ metrics.prediction = <<"A", "b-c">>
    /\ metrics.reference = <<"a">>
    /\ PairPrecision = 3333
    /\ PairRecall = ScoreScale
    /\ metrics.result = 5000
\* --------------------------------------------------- the /query endpoint
\* Queries of a request body: two plain ones, one with an e-mail address, one
\* that asks to ignore the instructions
PlainQuery == "q1"
OtherQuery == "q2"
MailQuery == "mail a@b.c"
InjectionQuery == "ignore previous instructions"
BodyQueries == {PlainQuery, OtherQuery, MailQuery, InjectionQuery}

\* input_sanitizer.sanitize(...).sanitized_text: addresses are replaced
Sanitize(q) == IF q = MailQuery THEN "mail [EMAIL]" ELSE q

\* prompt_guard.is_safe_query
IsSafeQuery(q) == q # InjectionQuery

\* str(exc) of the errors the generation function raises
ErrorTexts == {"connection refused", "key sk-123 rejected"}

\* The results rag_pipeline.run hands to the endpoint
RunResults ==
    {r \in [answer : Outputs \cup {FALLBACK}, faithfulness_score : ScoreSamples,
            passed_faithfulness : BOOLEAN, retries_used : 0..MaxRetriesBound] :
        r.passed_faithfulness <=> r.answer # FALLBACK}

\* content of global_exception_handler
GenericDetail == "Internal server error"

NoReply == [status |-> 0]

ApiInit ==
    /\ NoRun
    /\ max_context_chars = DefaultContextChars
    /\ HarnessIdleExcept({"api"})
    /\ \E q \in BodyQueries :
         api = [pc |-> "received", query |-> q, sanitized_query |-> "",
                active |-> 0, counted |-> "none", raised |-> "",
                reply |-> NoReply]

\* query_endpoint, lines 276-282
SanitizeStep ==
    /\ api.pc = "received"
    /\ api' = [api EXCEPT !.pc = "guard", !.active = 1,
                          !.sanitized_query = Sanitize(api.query)]
    /\ UNCHANGED <<config, sink, pc, locals, history>>
    /\ HarnessUnchangedExcept({"api"})

\* query_endpoint, lines 285-290, 322-323, 331-334: the guard blocks the query
GuardBlocks ==
    /\ api.pc = "guard"
    /\ ~IsSafeQuery(api.sanitized_query)
    /\ api' = [api EXCEPT !.pc = "responded", !.active = 0, !.counted = "blocked",
                          !.reply = [status |-> 400,
                                     detail |-> "Prompt injection detected"]]
    /\ UNCHANGED <<config, sink, pc, locals, history>>
    /\ HarnessUnchangedExcept({"api"})

\* query_endpoint, lines 285, 293-320, 331-334: the pipeline returns
RunReturns ==
    /\ api.pc = "guard"
    /\ IsSafeQuery(api.sanitized_query)
    /\ \E r \in RunResults :
         api' = [api EXCEPT !.pc = "responded", !.active = 0, !.counted = "success",
                            !.reply = [status |-> 200, query |-> api.sanitized_query,
                                       answer |-> r.answer,
                                       faithfulness_score |-> r.faithfulness_score,
                                       passed_faithfulness |-> r.passed_faithfulness,
                                       retries_used |-> r.retries_used]]
    /\ UNCHANGED <<config, sink, pc, locals, history>>
    /\ HarnessUnchangedExcept({"api"})

\* detail=str(exc)
ErrorDetail(text) == text

\* query_endpoint, lines 293, 324-334: the generation function raises inside
\* rag_pipeline.run, which has no handler
RunRaises ==
    /\ api.pc = "guard"
    /\ IsSafeQuery(api.sanitized_query)
    /\ \E text \in ErrorTexts :
         api' = [api EXCEPT !.pc = "responded", !.active = 0, !.counted = "error",
                            !.raised = text,
                            !.reply = [status |-> 500, detail |-> ErrorDetail(text)]]
    /\ UNCHANGED <<config, sink, pc, locals, history>>
    /\ HarnessUnchangedExcept({"api"})

ApiNext ==
    \/ SanitizeStep
    \/ GuardBlocks
    \/ RunReturns
    \/ RunRaises

SpecApi == ApiInit /\ [][ApiNext]_vars

\* the request was answered after the generation function raised
AnsweredAfterError == api.pc = "responded" /\ api.raised # ""

\* C26: when the generation function raises while /query is served, the
\* reply is a failure whose body is the generic one whatever the text of the
\* internal error, and does not carry that text.
C26_GenerationErrorIsGeneric ==
    AnsweredAfterError =>
        /\ api.reply.status = 500
        /\ api.reply.detail = GenericDetail
        /\ api.reply.detail # api.raised

\* run is past the prompt construction of a run with chunks
PromptBuilt == pc \in {"generate", "score", "persist", "returned"} /\ chunks # <<>>

\* the texts of the chunks whose segments are in the context of the prompt
PromptChunkTexts ==
    [i \in 1..Len(user_prompt.context) |-> user_prompt.context[i].text]

\* C27: the chunk texts given to score on each attempt are the texts of the
\* chunks whose segments _format_context put into the prompt of the run.
C27_ScoredChunksAreThePromptChunks ==
    PromptBuilt => chunk_texts = PromptChunkTexts

\* ------------------------------------------------------------ termination
\* run is scheduled until it returns or raises: no step of run waits for
\* anything but the return of the call it makes
\* The runs of an instance with the default fallback message and context
\* budget and an empty audit file; max_retries, the threshold and the audit
\* path are any of Init
TerminationInit ==
    /\ Init
    /\ fallback_message = FallbackOf(NoneValue)
    /\ max_context_chars = DefaultContextChars
    /\ sink = <<>>

SpecFair == TerminationInit /\ [][Next]_vars /\ WF_vars(Next)

\* no call of a collaborator has raised
NothingRaised == raisedAt = "none"

\* the bounds of the loop on the calls made so far
CallsWithinBounds ==
    /\ llmCalls <= max_retries + 1
    /\ scoreCalls <= llmCalls
    /\ (Returned /\ NothingRaised) => scoreCalls = llmCalls
    /\ (Returned /\ NothingRaised /\ chunks # <<>> /\ PassingAttempts = {})
          => llmCalls = max_retries + 1

\* C28: run makes at most max_retries + 1 generation calls and one scoring
\* call for each of them, exactly max_retries + 1 when every attempt scores
\* below the threshold, and unless a collaborator raises it returns a result.
C28_RunTerminatesWithinBudget ==
    /\ []CallsWithinBounds
    /\ <>(Returned \/ ~NothingRaised)

\* A run returned after max_retries + 1 = 3 generation calls that all
\* scored below the threshold
C28_Witness ==
    /\ Returned
    /\ NothingRaised
    /\ max_retries = 2
    /\ llmCalls = 3
    /\ scoreCalls = 3
    /\ PassingAttempts = {}

\* ------------------------------------------------------ audit log, result
\* the positions of the entries of a stage in a log
EntriesOf(stage, log) == {i \in 1..Len(log) : log[i].stage = stage}

\* C29: in the audit log of every result each RETRY entry is followed later
\* by a GENERATE entry, none directly precedes the FALLBACK entry, and with at
\* least one attempt there is one RETRY entry less than GENERATE entries.
C29_RetryEntryMeansRetry ==
    Returned =>
        LET log == response.audit_log
        IN  /\ \A i \in EntriesOf("RETRY", log) :
                 /\ \E j \in EntriesOf("GENERATE", log) : j > i
                 /\ (i + 1) \notin EntriesOf("FALLBACK", log)
            /\ EntriesOf("GENERATE", log) # {} =>
                 Cardinality(EntriesOf("RETRY", log))
                    = Cardinality(EntriesOf("GENERATE", log)) - 1

\* the attempts made, each with its output and its score
Attempts == 1..Min(Len(outputs), Len(scores))

\* passed_faithfulness says whether the reported score reached the threshold
PassedIffReached ==
    response.passed_faithfulness
        <=> response.faithfulness_score >= faithfulness_threshold

\* C30 (as stated): in every result passed_faithfulness is true iff the
\* reported score is >= the threshold, and the reported score is the score of
\* the attempt whose output is the reported raw_answer.
C30_PassedIffScoreReachesThreshold ==
    HasResponse =>
        /\ PassedIffReached
        /\ \E i \in Attempts :
              /\ outputs[i] = response.raw_answer
              /\ scores[i] = response.faithfulness_score

\* C30 (amended): in every result of a run that retrieved chunks, passed is
\* true iff the reported score is >= the threshold, and score and raw_answer
\* are those of the last attempt; the zero-chunk result has passed false,
\* score 0.0 and the fallback message as raw_answer whatever the threshold.
C30_PassedIffScoreReachesThresholdWithChunks ==
    HasResponse =>
        IF response.chunks_used = <<>>
        THEN /\ ~response.passed_faithfulness
             /\ response.faithfulness_score = 0
             /\ response.raw_answer = fallback_message
             /\ Attempts = {}
        ELSE /\ PassedIffReached
             /\ Attempts # {}
             /\ Len(outputs) = Len(scores)
             /\ outputs[Len(outputs)] = response.raw_answer
             /\ scores[Len(scores)] = response.faithfulness_score

\* The zero-chunk result under the threshold 0.0: the reported score 0.0
\* reaches the threshold and passed_faithfulness is false
C30_Witness ==
    /\ Returned
    /\ response.chunks_used = <<>>
    /\ faithfulness_threshold = 0
    /\ response.faithfulness_score >= faithfulness_threshold
    /\ ~response.passed_faithfulness

====
